---- MODULE Spec2Model ----
(***************************************************************************)
(* Animinder: the real-time synchronisation and reconciliation core.       *)
(*                                                                         *)
(*   - the unread counter ledger (chatService.sendMessage and               *)
(*     chatService.markMessagesAsRead, Firestore transactions),            *)
(*   - the mutual-like matcher (likeService.saveLike / checkMutualLike,    *)
(*     matchService.saveMatch),                                            *)
(*   - the dual-predicate merge (matchService.getUserMatchesRealtime),     *)
(*   - the optimistic overlay of the chat screen (ChatDetailScreen).       *)
(*                                                                         *)
(* Each subsystem has its own specification over the shared variables;     *)
(* the variables of the other subsystems stay at their initial values.     *)
(***************************************************************************)
EXTENDS Integers, Sequences, FiniteSets, TLC

VARIABLES
    \* ---- document store: chats/{chatId} and chats/{chatId}/messages ----
    chat,        \* the chat document: exists, unreadCount1/2, lastMessage, version
    msgs,        \* the messages subcollection, in commit order
    tx,          \* the in-flight sendMessage / markMessagesAsRead calls
    calls,       \* number of service calls started so far
    clean,       \* per reader: a markMessagesAsRead committed and no send to the reader since
    \* ---- document store: likes and matches collections ----
    likes,       \* the likes collection, in creation order
    matches,     \* the matches collection, in creation order
    flow,        \* per profile: the like operation it is running
    likeOps,     \* per profile: number of like operations started
    overlapped,  \* two like operations were in flight at the same time
    \* ---- the chat screen (ChatDetailScreen) and the messages it listens to ----
    now,         \* the last reading of the device clock (ms)
    srv,         \* confirmed messages of the chat, in commit order
    messages,    \* useState: the displayed message list
    inputText,   \* useState: the text input
    sending,     \* useState: a send is in progress
    send,        \* the running handleSendMessage call
    sendCount,   \* handleSendMessage calls that passed the guard
    listener,    \* the getChatMessages subscription: open, snapshots delivered
    lastSnapshot,\* the list most recently handed to the getChatMessages callback
    history,     \* per send: the document it committed, whether it failed
    \* ---- getUserMatchesRealtime(userId, callback) ----
    matchesMap,  \* Map<string, Match>, in insertion order
    isFirstLoad, \* isFirstLoad1, isFirstLoad2
    delivered,   \* the list most recently handed to the callback
    results,     \* per role query: the result set of its latest snapshot
    events,      \* the snapshots delivered so far, in delivery order
    replay,      \* the replay of the delivered snapshots: position, state before it
    \* ---- getChatId(userId1, userId2) ----
    userIds,     \* the two arguments of the call
    chatId,      \* the string the call returned, <<>> before the call
    \* ---- getUserChats(userId, callback) ----
    chatDocs,    \* the chats collection: per chat, the role of userId and lastMessageTime
    loads,       \* the processChats invocations: position, snapshot1, snapshot2
    chatList,    \* the callback: whether and how often called, the list of the last call
    chatsListeners, \* the userId1 and userId2 listeners: listening, failed, unsubscribed
    chatsChanged, \* the collection changed and no listener snapshot has called processChats since
    \* ---- message notifications of the receiver ----
    viewingChatId, \* the chat the receiver has open ("none": no chat screen)
    notifier,    \* the setupMessageNotifications listener: currentChatId, isInitialLoad, lastMessageIds
    inboxMsgs,   \* the committed messages addressed to the receiver, in commit order
    announced,   \* messages for which the sender's handler has called sendNotificationToReceiver
    notifQueue,  \* newMessages of the listener's handlers, not yet shown
    notified,    \* the calls of the notification dispatcher, in order
    setups,      \* number of setupMessageNotifications calls
    \* ---- My Pets (MyPetsSection) and the animals collection ----
    animalDocs,  \* the ids of the profile's documents in the animals collection
    userAnimals, \* useState: the displayed pets, synced = built from a snapshot
    optimisticAnimalsRef, \* useRef: the ids marked as optimistic
    adds,        \* per pet: none, awaiting, committed, failed (the remote add)
    animalsListener, \* the animals listener: listening, failed
    \* ---- what handleSendMessage tests before it sends ----
    routeChatId, \* route.params.chatId ("": none)
    currentUserId, \* currentUser.id ("": none, "user1": the placeholder profile)
    presses,     \* handleSendMessage calls that returned at the guard
    \* ---- createOrGetChat(userId1, userId2) ----
    creating,    \* per caller: its position and what chatDoc.exists() told it
    createCalls  \* number of createOrGetChat calls started so far

ledgerVars == <<chat, msgs, tx, calls, clean>>
likeVars   == <<likes, matches, flow, likeOps, overlapped>>
screenVars == <<now, srv, messages, inputText, sending, send, sendCount, listener,
                lastSnapshot, history>>

mergeVars  == <<matchesMap, isFirstLoad, delivered, results, events, replay>>

chatIdVars == <<userIds, chatId>>
chatsVars  == <<chatDocs, loads, chatList, chatsListeners, chatsChanged>>
notifVars  == <<viewingChatId, notifier, inboxMsgs, announced, notifQueue, notified,
                setups>>

petsVars   == <<animalDocs, userAnimals, optimisticAnimalsRef, adds, animalsListener>>

guardVars  == <<routeChatId, currentUserId, presses>>

createVars == <<creating, createCalls>>

othersOfLedger == <<likeVars, screenVars, mergeVars, chatIdVars, chatsVars, notifVars, petsVars,
                   guardVars, createVars>>
othersOfLike   == <<ledgerVars, screenVars, mergeVars, chatIdVars, chatsVars, notifVars, petsVars,
                   guardVars, createVars>>
othersOfScreen == <<ledgerVars, likeVars, mergeVars, chatIdVars, chatsVars, notifVars, petsVars,
                   guardVars, createVars>>
othersOfMerge  == <<ledgerVars, likeVars, screenVars, chatIdVars, chatsVars, notifVars, petsVars,
                   guardVars, createVars>>
othersOfChatId == <<ledgerVars, likeVars, screenVars, mergeVars, chatsVars, notifVars, petsVars,
                   guardVars, createVars>>
othersOfChats  == <<ledgerVars, likeVars, screenVars, mergeVars, chatIdVars, notifVars, petsVars,
                   guardVars, createVars>>
othersOfNotif  == <<ledgerVars, likeVars, screenVars, mergeVars, chatIdVars, chatsVars, petsVars,
                   guardVars, createVars>>
othersOfPets   == <<ledgerVars, likeVars, screenVars, mergeVars, chatIdVars, chatsVars,
                    notifVars, guardVars, createVars>>
othersOfGuard  == <<ledgerVars, likeVars, screenVars, mergeVars, chatIdVars, chatsVars,
                    notifVars, petsVars, createVars>>

othersOfCreate == <<likeVars, screenVars, mergeVars, chatIdVars, chatsVars, notifVars,
                    petsVars, guardVars>>

vars == <<ledgerVars, likeVars, screenVars, mergeVars, chatIdVars, chatsVars, notifVars,
         petsVars, guardVars, createVars>>

----------------------------------------------------------------------------
(* Bounds *)
NProcs      == 2     \* concurrent service calls
MaxCalls    == 3     \* service calls started in one behaviour
MaxAttempts == 2     \* attempts of one transaction before it rejects
MaxLikes    == 3     \* like operations started in one behaviour
MaxSends    == 2     \* handleSendMessage calls that pass the guard
MaxSrv      == 2     \* confirmed messages in the chat
MaxEvents   == 2     \* snapshots the two match listeners deliver
MaxIdLen    == 2     \* characters of a profile id
MaxLoads    == 2     \* processChats invocations of one subscription
MaxTouches  == 1     \* sends that change a lastMessageTime while chats load
MaxInbox    == 2     \* messages committed for the receiver
MaxSetups   == 2     \* setupMessageNotifications calls
MaxPets     == 3     \* pets the profile adds
MaxPresses  == 1     \* handleSendMessage calls that return at the guard
MaxStored   == 2     \* likes in the collection when checkMutualLike runs
NCreators   == 2     \* concurrent createOrGetChat callers
MaxCreates  == 2     \* createOrGetChat calls

----------------------------------------------------------------------------
(* Unread counter ledger *)

Users == {"u1", "u2"}          \* userId1 = "u1", userId2 = "u2" of the chat
Texts == {"hi", "yo"}
Procs == 1..NProcs

Other(u) == IF u = "u1" THEN "u2" ELSE "u1"

IdleTx == [pc |-> "idle", sender |-> "u1", text |-> "hi", reader |-> "u1",
           readVer |-> 0, readCount |-> 0, readExists |-> FALSE,
           unreadSeen |-> {}, attempts |-> 0, res |-> "none"]

\* unreadCount1 belongs to userId1, unreadCount2 to userId2
UnreadCounter(c, u) == IF u = "u1" THEN c.unread1 ELSE c.unread2

\* the unread query of markMessagesAsRead:
\*   where('receiverId','==',userId).where('read','==',false)
UnreadQuery(ms, u) == {i \in 1..Len(ms) : ms[i].receiver = u /\ ~ms[i].read}

\* a transaction is in flight while its process is not idle
InFlight(p) == tx[p].pc # "idle"
Settled == \A p \in Procs : ~InFlight(p)

LedgerInit ==
    /\ chat \in {[exists |-> e, unread1 |-> 0, unread2 |-> 0,
                  lastMessage |-> "", ver |-> 0] : e \in BOOLEAN}
    /\ msgs = <<>>
    /\ tx = [p \in Procs |-> IdleTx]
    /\ calls = 0
    /\ clean = [u \in Users |-> FALSE]

\* sendMessage(chatId, senderId, receiverId, text): the call starts
SendStart(p, s, t) ==
    /\ tx[p].pc = "idle"
    /\ calls < MaxCalls
    /\ calls' = calls + 1
    /\ tx' = [tx EXCEPT ![p] = [IdleTx EXCEPT !.pc = "sendGet", !.sender = s,
                                              !.text = t, !.attempts = 1]]
    /\ UNCHANGED <<chat, msgs, clean>>
    /\ UNCHANGED othersOfLedger

\* a call that creates the message document before it finds no chat document
SendNoChatWriting(p) ==
    /\ tx[p].pc = "sendGet"
    /\ ~chat.exists
    /\ msgs' = Append(msgs, [sender |-> tx[p].sender, receiver |-> Other(tx[p].sender),
                             text |-> tx[p].text, read |-> FALSE])
    /\ tx' = [tx EXCEPT ![p] = [IdleTx EXCEPT !.res = "rejected"]]
    /\ UNCHANGED <<chat, calls, clean>>
    /\ UNCHANGED othersOfLedger

\* transaction.get(chatRef) finds no chat document: the update function throws,
\* the transaction is abandoned and sendMessage rejects
SendNoChat(p) ==
    /\ tx[p].pc = "sendGet"
    /\ ~chat.exists
    /\ tx' = [tx EXCEPT ![p] = [IdleTx EXCEPT !.res = "rejected"]]
    /\ UNCHANGED <<chat, msgs, calls, clean>>
    /\ UNCHANGED othersOfLedger

\* transaction.get(chatRef): the chat document and its version are read
SendGet(p) ==
    /\ tx[p].pc = "sendGet"
    /\ chat.exists
    /\ tx' = [tx EXCEPT ![p].pc = "sendCommit",
                        ![p].readVer = chat.ver,
                        ![p].readExists = TRUE,
                        ![p].readCount = UnreadCounter(chat, Other(tx[p].sender))]
    /\ UNCHANGED <<chat, msgs, calls, clean>>
    /\ UNCHANGED othersOfLedger

\* an update that raises both counters
SendUpdateRaisingBoth(c, s, t, cnt) ==
    [c EXCEPT !.lastMessage = t, !.unread1 = c.unread1 + 1, !.unread2 = c.unread2 + 1,
              !.ver = c.ver + 1]

\* an update that raises the receiver's counter and leaves lastMessage alone
SendUpdateKeepingLastMessage(c, s, t, cnt) ==
    IF s = "u1"
    THEN [c EXCEPT !.unread2 = cnt + 1, !.ver = c.ver + 1]
    ELSE [c EXCEPT !.unread1 = cnt + 1, !.ver = c.ver + 1]

\* the chat document as transaction.update(chatRef, updateData) leaves it
SendUpdate(c, s, t, cnt) ==
    IF s = "u1"
    THEN [c EXCEPT !.lastMessage = t, !.unread2 = cnt + 1, !.ver = c.ver + 1]
    ELSE [c EXCEPT !.lastMessage = t, !.unread1 = cnt + 1, !.ver = c.ver + 1]

\* the message document of transaction.set(messageRef, {...})
NewMessage(s, t) == [sender |-> s, receiver |-> Other(s), text |-> t, read |-> FALSE]

\* the transaction commits: the chat document is unchanged since it was read
SendCommit(p) ==
    /\ tx[p].pc = "sendCommit"
    /\ chat.ver = tx[p].readVer
    /\ msgs' = Append(msgs, NewMessage(tx[p].sender, tx[p].text))
    /\ chat' = SendUpdate(chat, tx[p].sender, tx[p].text, tx[p].readCount)
    /\ clean' = [clean EXCEPT ![Other(tx[p].sender)] = FALSE]
    /\ tx' = [tx EXCEPT ![p] = [IdleTx EXCEPT !.res = "ok"]]
    /\ UNCHANGED calls
    /\ UNCHANGED othersOfLedger

\* write conflict: the chat document changed since it was read; the update
\* function runs again
SendRetry(p) ==
    /\ tx[p].pc = "sendCommit"
    /\ chat.ver # tx[p].readVer
    /\ tx[p].attempts < MaxAttempts
    /\ tx' = [tx EXCEPT ![p].pc = "sendGet", ![p].attempts = tx[p].attempts + 1]
    /\ UNCHANGED <<chat, msgs, calls, clean>>
    /\ UNCHANGED othersOfLedger

\* markMessagesAsRead(chatId, userId): the call starts
MarkStart(p, r) ==
    /\ tx[p].pc = "idle"
    /\ calls < MaxCalls
    /\ calls' = calls + 1
    /\ tx' = [tx EXCEPT ![p] = [IdleTx EXCEPT !.pc = "markQuery", !.reader = r,
                                              !.attempts = 1]]
    /\ UNCHANGED <<chat, msgs, clean>>
    /\ UNCHANGED othersOfLedger

\* messagesRef.where(...).get(): a plain query, outside the transaction's reads
MarkQuery(p) ==
    /\ tx[p].pc = "markQuery"
    /\ tx' = [tx EXCEPT ![p].pc = "markGet",
                        ![p].unreadSeen = UnreadQuery(msgs, tx[p].reader)]
    /\ UNCHANGED <<chat, msgs, calls, clean>>
    /\ UNCHANGED othersOfLedger

\* transaction.get(chatRef)
MarkGet(p) ==
    /\ tx[p].pc = "markGet"
    /\ tx' = [tx EXCEPT ![p].pc = "markCommit",
                        ![p].readVer = chat.ver,
                        ![p].readExists = chat.exists]
    /\ UNCHANGED <<chat, msgs, calls, clean>>
    /\ UNCHANGED othersOfLedger

\* a reset that decrements the counter instead of storing 0
MarkUpdateSubtracting(c, r) ==
    IF r = "u1"
    THEN [c EXCEPT !.unread1 = c.unread1 - 1, !.ver = c.ver + 1]
    ELSE [c EXCEPT !.unread2 = c.unread2 - 1, !.ver = c.ver + 1]

\* the chat document as transaction.update(chatRef, updateData) leaves it
MarkUpdate(c, r) ==
    IF r = "u1"
    THEN [c EXCEPT !.unread1 = 0, !.ver = c.ver + 1]
    ELSE [c EXCEPT !.unread2 = 0, !.ver = c.ver + 1]

\* an update that sets read on every message of the chat
MarkReadEveryone(ms, seen) == [i \in 1..Len(ms) |-> [ms[i] EXCEPT !.read = TRUE]]

\* the message documents after transaction.update(doc.ref, {read: true})
MarkRead(ms, seen) ==
    [i \in 1..Len(ms) |-> IF i \in seen THEN [ms[i] EXCEPT !.read = TRUE] ELSE ms[i]]

\* the transaction commits
MarkCommit(p) ==
    /\ tx[p].pc = "markCommit"
    /\ chat.ver = tx[p].readVer
    /\ msgs' = MarkRead(msgs, tx[p].unreadSeen)
    /\ chat' = IF tx[p].readExists THEN MarkUpdate(chat, tx[p].reader) ELSE chat
    /\ clean' = [clean EXCEPT ![tx[p].reader] = TRUE]
    /\ tx' = [tx EXCEPT ![p] = [IdleTx EXCEPT !.res = "ok"]]
    /\ UNCHANGED calls
    /\ UNCHANGED othersOfLedger

\* write conflict on the chat document: the whole update function runs again
MarkRetry(p) ==
    /\ tx[p].pc = "markCommit"
    /\ chat.ver # tx[p].readVer
    /\ tx[p].attempts < MaxAttempts
    /\ tx' = [tx EXCEPT ![p].pc = "markQuery", ![p].attempts = tx[p].attempts + 1]
    /\ UNCHANGED <<chat, msgs, calls, clean>>
    /\ UNCHANGED othersOfLedger

\* runTransaction rejects (attempts exhausted, or the network failed): nothing
\* of the transaction is applied and the call rethrows
TxReject(p) ==
    /\ tx[p].pc \in {"sendGet", "sendCommit", "markQuery", "markGet", "markCommit"}
    /\ tx' = [tx EXCEPT ![p] = [IdleTx EXCEPT !.res = "rejected"]]
    /\ UNCHANGED <<chat, msgs, calls, clean>>
    /\ UNCHANGED othersOfLedger

LedgerNext ==
    \/ \E p \in Procs, s \in Users, t \in Texts : SendStart(p, s, t)
    \/ \E p \in Procs : SendNoChat(p)
    \/ \E p \in Procs : SendGet(p)
    \/ \E p \in Procs : SendCommit(p)
    \/ \E p \in Procs : SendRetry(p)
    \/ \E p \in Procs, r \in Users : MarkStart(p, r)
    \/ \E p \in Procs : MarkQuery(p)
    \/ \E p \in Procs : MarkGet(p)
    \/ \E p \in Procs : MarkCommit(p)
    \/ \E p \in Procs : MarkRetry(p)
    \/ \E p \in Procs : TxReject(p)

\* the sendMessage calls alone
SendNext ==
    \/ \E p \in Procs, s \in Users, t \in Texts : SendStart(p, s, t)
    \/ \E p \in Procs : SendNoChat(p)
    \/ \E p \in Procs : SendGet(p)
    \/ \E p \in Procs : SendCommit(p)
    \/ \E p \in Procs : SendRetry(p)
    \/ \E p \in Procs : TxReject(p)

----------------------------------------------------------------------------
(* createOrGetChat: get the chat document, set it when it was not there *)

Creators == 1..NCreators

CreateInit ==
    /\ creating = [k \in Creators |-> [pc |-> "idle", res |-> "none"]]
    /\ createCalls = 0

\* createOrGetChat(userId1, userId2): the call starts, the document id is
\* getChatId(userId1, userId2) for every caller of the pair
CreateStart(k) ==
    /\ creating[k].pc = "idle"
    /\ createCalls < MaxCreates
    /\ createCalls' = createCalls + 1
    /\ creating' = [creating EXCEPT ![k] = [pc |-> "get", res |-> "none"]]
    /\ UNCHANGED ledgerVars
    /\ UNCHANGED othersOfCreate

\* await chatsCollection.doc(chatId).get(): an existing document is returned
\* as it is (a document that exists has data, so data is never null here);
\* otherwise the call goes on to create it
CreateGet(k) ==
    /\ creating[k].pc = "get"
    /\ creating' = [creating EXCEPT ![k] =
                       IF chat.exists THEN [pc |-> "idle", res |-> "existing"]
                                      ELSE [pc |-> "set", res |-> "none"]]
    /\ UNCHANGED createCalls
    /\ UNCHANGED ledgerVars
    /\ UNCHANGED othersOfCreate

\* the document that chatsCollection.doc(chatId).set({...}) writes: set()
\* replaces whatever the document holds at that moment
NewChat(c) == [exists |-> TRUE, unread1 |-> 0, unread2 |-> 0, lastMessage |-> "",
               ver |-> c.ver + 1]

\* await chatsCollection.doc(chatId).set({...}), outside any transaction
CreateSet(k) ==
    /\ creating[k].pc = "set"
    /\ chat' = NewChat(chat)
    /\ creating' = [creating EXCEPT ![k] = [pc |-> "idle", res |-> "created"]]
    /\ UNCHANGED <<msgs, tx, calls, clean>>
    /\ UNCHANGED createCalls
    /\ UNCHANGED othersOfCreate

CreateNext ==
    \/ \E k \in Creators : CreateStart(k)
    \/ \E k \in Creators : CreateGet(k)
    \/ \E k \in Creators : CreateSet(k)
    \/ \E p \in Procs, s \in Users, t \in Texts : SendStart(p, s, t)
    \/ \E p \in Procs : SendNoChat(p)
    \/ \E p \in Procs : SendGet(p)
    \/ \E p \in Procs : SendCommit(p)
    \/ \E p \in Procs : SendRetry(p)
    \/ \E p \in Procs : TxReject(p)

\* a step resets the chat document after a message was committed
ChatReset ==
    /\ msgs # <<>>
    /\ chat' # chat
    /\ chat'.lastMessage = ""
    /\ chat'.unread1 = 0
    /\ chat'.unread2 = 0

\* C32: createOrGetChat never overwrites an existing chat: under every
\* interleaving of concurrent createOrGetChat calls with sendMessage calls, no
\* step resets the unread counters to 0 and lastMessage to '' after a message
\* has been committed.
C32_CreateNeverResetsChat == [][~ChatReset]_vars

----------------------------------------------------------------------------
(* sendMessage without a transaction (the older chatService) *)

\* sendMessage(chatId, senderId, receiverId, text): the call starts
LegacySendStart(p, s, t) ==
    /\ tx[p].pc = "idle"
    /\ calls < MaxCalls
    /\ calls' = calls + 1
    /\ tx' = [tx EXCEPT ![p] = [IdleTx EXCEPT !.pc = "legacyAdd", !.sender = s,
                                              !.text = t, !.attempts = 1]]
    /\ UNCHANGED <<chat, msgs, clean>>
    /\ UNCHANGED othersOfLedger

\* await messagesCollection.add(messageData)
LegacyAddMessage(p) ==
    /\ tx[p].pc = "legacyAdd"
    /\ msgs' = Append(msgs, NewMessage(tx[p].sender, tx[p].text))
    /\ tx' = [tx EXCEPT ![p].pc = "legacyGet"]
    /\ UNCHANGED <<chat, calls, clean>>
    /\ UNCHANGED othersOfLedger

\* await chatRef.get(): without chat data the update is skipped and the call
\* resolves
LegacyGetChat(p) ==
    /\ tx[p].pc = "legacyGet"
    /\ tx' = IF chat.exists
             THEN [tx EXCEPT ![p].pc = "legacyUpdate"]
             ELSE [tx EXCEPT ![p] = [IdleTx EXCEPT !.res = "ok"]]
    /\ UNCHANGED <<chat, msgs, calls, clean>>
    /\ UNCHANGED othersOfLedger

\* the chat document after chatRef.update with FieldValue.increment(1)
LegacyUpdate(c, s, t) ==
    IF s = "u1"
    THEN [c EXCEPT !.lastMessage = t, !.unread2 = c.unread2 + 1, !.ver = c.ver + 1]
    ELSE [c EXCEPT !.lastMessage = t, !.unread1 = c.unread1 + 1, !.ver = c.ver + 1]

\* await chatRef.update(updateData)
LegacyUpdateChat(p) ==
    /\ tx[p].pc = "legacyUpdate"
    /\ chat' = LegacyUpdate(chat, tx[p].sender, tx[p].text)
    /\ clean' = [clean EXCEPT ![Other(tx[p].sender)] = FALSE]
    /\ tx' = [tx EXCEPT ![p] = [IdleTx EXCEPT !.res = "ok"]]
    /\ UNCHANGED <<msgs, calls>>
    /\ UNCHANGED othersOfLedger

\* one of the awaited calls fails: the catch logs and rethrows, what was
\* written stays
LegacyReject(p) ==
    /\ tx[p].pc \in {"legacyAdd", "legacyGet", "legacyUpdate"}
    /\ tx' = [tx EXCEPT ![p] = [IdleTx EXCEPT !.res = "rejected"]]
    /\ UNCHANGED <<chat, msgs, calls, clean>>
    /\ UNCHANGED othersOfLedger

LegacyNext ==
    \/ \E p \in Procs, s \in Users, t \in Texts : LegacySendStart(p, s, t)
    \/ \E p \in Procs : LegacyAddMessage(p)
    \/ \E p \in Procs : LegacyGetChat(p)
    \/ \E p \in Procs : LegacyUpdateChat(p)
    \/ \E p \in Procs : LegacyReject(p)

----------------------------------------------------------------------------
(* Properties of the unread counter ledger *)

UnreadCount(u) == Cardinality(UnreadQuery(msgs, u))

\* C1: whenever no sendMessage or markMessagesAsRead call is in flight, the
\* chat's unread counter of every participant equals the number of messages
\* addressed to that participant that are still unread.
C1_CounterMatchesUnread ==
    Settled => \A u \in Users : UnreadCounter(chat, u) = UnreadCount(u)

\* C10: once markMessagesAsRead(chat, reader) has committed, and until a later
\* sendMessage addressed to the reader commits, the reader has no unread
\* message and the reader-side counter is 0.
C10_MarkReadLeavesNothingUnread ==
    \A u \in Users : clean[u] => (UnreadCount(u) = 0 /\ UnreadCounter(chat, u) = 0)

\* the three effects of a send, applied in one step
SendEffects ==
    /\ Len(msgs') = Len(msgs) + 1
    /\ chat'.lastMessage = msgs'[Len(msgs')].text
    /\ UnreadCounter(chat', msgs'[Len(msgs')].receiver)
         = UnreadCounter(chat, msgs'[Len(msgs')].receiver) + 1

NoSendEffect ==
    /\ Len(msgs') = Len(msgs)
    /\ chat'.lastMessage = chat.lastMessage
    /\ \A u \in Users : UnreadCounter(chat', u) <= UnreadCounter(chat, u)

\* C9: sendMessage applies its three effects together or not at all: every
\* step that creates a message document also sets lastMessage to its text and
\* raises the receiver's counter by one, and no other step changes lastMessage
\* or raises a counter, so no store state holds a strict subset of the three.
C9_SendAllOrNothing == [][SendEffects \/ NoSendEffect]_vars


----------------------------------------------------------------------------
(* markMessagesAsRead called concurrently, with no send in flight *)

\* the chat after earlier sends, one after another, none of them read yet
SentBefore ==
    UNION {[1..n -> {[sender |-> s, text |-> t, receiver |-> Other(s),
                      read |-> FALSE] : s \in Users, t \in Texts}] :
              n \in 0..(MaxCalls - 2)}

MarkReadInit ==
    /\ msgs \in SentBefore
    /\ chat = [exists |-> TRUE,
               unread1 |-> Cardinality(UnreadQuery(msgs, "u1")),
               unread2 |-> Cardinality(UnreadQuery(msgs, "u2")),
               lastMessage |-> IF msgs = <<>> THEN "" ELSE msgs[Len(msgs)].text,
               ver |-> Len(msgs)]
    /\ tx = [p \in Procs |-> IdleTx]
    /\ calls = Len(msgs)
    /\ clean = [u \in Users |-> FALSE]

MarkReadNext ==
    \/ \E p \in Procs, r \in Users : MarkStart(p, r)
    \/ \E p \in Procs : MarkQuery(p)
    \/ \E p \in Procs : MarkGet(p)
    \/ \E p \in Procs : MarkCommit(p)
    \/ \E p \in Procs : MarkRetry(p)
    \/ \E p \in Procs : TxReject(p)

\* C11: with markMessagesAsRead calls running concurrently for a chat (two of
\* them for the same reader included), no counter is ever negative; once a
\* call of a reader has committed, the reader-side counter is 0 and every
\* message addressed to the reader is read, in every later state, whatever the
\* other call does; messages addressed to a participant with no committed call
\* are untouched, as after a single call.
C11_ConcurrentMarkReadSettlesAtZero ==
    /\ \A u \in Users : UnreadCounter(chat, u) >= 0
    /\ \A u \in Users :
          clean[u] => (UnreadCounter(chat, u) = 0 /\ UnreadCount(u) = 0)
    /\ \A u \in Users :
          ~clean[u] => \A i \in 1..Len(msgs) : msgs[i].receiver = u => ~msgs[i].read

\* one call has committed while a second call of the same reader, which had
\* already queried the then unread messages, is about to commit
C11_Witness ==
    /\ \E p \in Procs : tx[p].res = "ok"
    /\ \E q \in Procs :
          /\ tx[q].pc = "markCommit"
          /\ tx[q].unreadSeen # {}
          /\ clean[tx[q].reader]
          /\ UnreadCount(tx[q].reader) = 0

\* the messages addressed to u: the committed sends of the other participant
SentTo(u) == {i \in 1..Len(msgs) : msgs[i].receiver = u}

\* a sendMessage commits in this step
SendCommits == Len(msgs') = Len(msgs) + 1

CommittedSendRaisesReceiverOnly ==
    SendCommits =>
        LET m == msgs'[Len(msgs')]
        IN  /\ UnreadCounter(chat', m.receiver) = UnreadCounter(chat, m.receiver) + 1
            /\ UnreadCounter(chat', m.sender) = UnreadCounter(chat, m.sender)

\* C25: a committed sendMessage raises the counter of the participant who is
\* not the sender by exactly 1 and leaves the sender's counter unchanged; N
\* sends that commit, however their transactions interleave, raise the
\* receiver's counter by exactly N.
C25_CommittedSendsCountOnce ==
    /\ [][CommittedSendRaisesReceiverOnly]_vars
    /\ [](\A u \in Users : UnreadCounter(chat, u) = Cardinality(SentTo(u)))

\* two sends of u1 have committed and a third, which met a write conflict, is
\* in its second attempt
C25_Witness ==
    /\ Len(msgs) = 2
    /\ \A i \in 1..2 : msgs[i].sender = "u1"
    /\ chat.unread2 = 2 /\ chat.unread1 = 0
    /\ \E p \in Procs : /\ tx[p].pc = "sendCommit"
                        /\ tx[p].sender = "u1"
                        /\ tx[p].attempts = 2

\* a markMessagesAsRead called for reader r commits in this step
MarkCommitsFor(r) ==
    \E p \in Procs : /\ tx[p].pc = "markCommit"
                     /\ tx[p].reader = r
                     /\ tx'[p].res = "ok"

ReadFlipsOnceByReceiver ==
    /\ Len(msgs') >= Len(msgs)
    /\ \A i \in 1..Len(msgs) :
          /\ [msgs'[i] EXCEPT !.read = msgs[i].read] = msgs[i]
          /\ msgs[i].read => msgs'[i].read
          /\ (~msgs[i].read /\ msgs'[i].read) => MarkCommitsFor(msgs[i].receiver)
    /\ \A i \in (Len(msgs) + 1)..Len(msgs') : ~msgs'[i].read

\* C27: a message's read flag only changes from false to true, and only when a
\* markMessagesAsRead called for the message's receiverId commits; no step
\* deletes a message, changes its other fields or sets read back to false.
C27_ReadFlipsOnceByReceiver == [][ReadFlipsOnceByReceiver]_vars

\* u2 has read the message addressed to it while the message addressed to u1
\* is still unread
C27_Witness ==
    /\ Len(msgs) = 2
    /\ msgs[1].receiver = "u2" /\ msgs[1].read
    /\ msgs[2].receiver = "u1" /\ ~msgs[2].read

\* a sendMessage call ends in this step, and what it ends with
SendEnds(p) == tx[p].pc \in {"sendGet", "sendCommit"} /\ tx'[p].pc = "idle"

NoChatSendRejects ==
    ~chat.exists =>
        /\ chat' = chat
        /\ msgs' = msgs
        /\ \A p \in Procs : SendEnds(p) => tx'[p].res = "rejected"

\* C30: a sendMessage addressed to a chat id that has no chat document rejects
\* and leaves the store as it was: no message document is created and no
\* counter or lastMessage field is written.
C30_NoChatSendRejects == [][NoChatSendRejects]_vars

\* a sendMessage on the chat without a document has rejected; the store is as
\* it was created
C30_Witness ==
    /\ ~chat.exists
    /\ calls >= 1
    /\ \E p \in Procs : tx[p].pc = "idle" /\ tx[p].res = "rejected"
    /\ msgs = <<>>
    /\ chat.lastMessage = "" /\ chat.unread1 = 0 /\ chat.unread2 = 0

\* C39: in every state in which no sendMessage call is in flight, the chat's
\* lastMessage is the text of the most recently committed message of the
\* chat, under every interleaving of concurrent sends of both participants.
C39_LastMessageIsLatestCommitted ==
    (Settled /\ msgs # <<>>) => chat.lastMessage = msgs[Len(msgs)].text

\* both participants have sent, u1 "hi" first and u2 "yo" after it, and no
\* call is in flight
C39_Witness ==
    /\ Settled
    /\ Len(msgs) = 2
    /\ msgs[1].sender = "u1" /\ msgs[1].text = "hi"
    /\ msgs[2].sender = "u2" /\ msgs[2].text = "yo"
    /\ chat.lastMessage = "yo"

----------------------------------------------------------------------------
(* Mutual-like matcher *)

Profiles == {"u1", "u2"}
Pets     == {"a1", "a2", "b1", "b2"}
Owner(a) == IF a \in {"a1", "a2"} THEN "u1" ELSE "u2"
PetsOf(u) == {a \in Pets : Owner(a) = u}

IdleFlow == [pc |-> "idle", animal |-> "a1", owner |-> "u1", matched |-> "a1"]

LikeInit ==
    /\ likes = <<>>
    /\ matches = <<>>
    /\ flow = [u \in Profiles |-> IdleFlow]
    /\ likeOps = [u \in Profiles |-> 0]
    /\ overlapped = FALSE

LikesStarted == likeOps["u1"] + likeOps["u2"]

\* the profile swipes right on a pet of the other profile: the like operation
\* (saveLike, then checkMutualLike, then saveMatch on a match) starts
LikeAnimal(u, a) ==
    /\ flow[u].pc = "idle"
    /\ Owner(a) # u
    /\ LikesStarted < MaxLikes
    /\ flow' = [flow EXCEPT ![u] = [IdleFlow EXCEPT !.pc = "saveLike", !.animal = a,
                                                    !.owner = Owner(a)]]
    /\ likeOps' = [likeOps EXCEPT ![u] = likeOps[u] + 1]
    /\ overlapped' = (overlapped \/ \E v \in Profiles : v # u /\ flow[v].pc # "idle")
    /\ UNCHANGED <<likes, matches>>
    /\ UNCHANGED othersOfLike

\* saveLike(likerUserId, likedAnimalId, ownerId): likesCollection.add
saveLike(u) ==
    /\ flow[u].pc = "saveLike"
    /\ likes' = Append(likes, [likerUserId |-> u, likedAnimalId |-> flow[u].animal,
                               ownerId |-> flow[u].owner])
    /\ flow' = [flow EXCEPT ![u].pc = "checkMutualLike"]
    /\ UNCHANGED <<matches, likeOps, overlapped>>
    /\ UNCHANGED othersOfLike

\* a query that selects on ownerId: the likes that target the owner's pets
OwnerLikesByOwnerId(ls, o) == {i \in 1..Len(ls) : ls[i].ownerId = o}

\* the documents of likesCollection.where('likerUserId','==',ownerId).get()
OwnerLikes(ls, o) == {i \in 1..Len(ls) : ls[i].likerUserId = o}

\* a matcher that never finds the owner's like
LikeMatchesNothing(l, likerUserId, userAnimalIds) == FALSE

\* a matcher that only looks for the liked pet in userAnimals
LikeMatchesListedPet(l, likerUserId, userAnimalIds) == l.likedAnimalId \in userAnimalIds

\* a matcher that accepts every like of the owner, whatever it targets
LikeMatchesAnyTarget(l, likerUserId, userAnimalIds) == TRUE

\* the loop of checkMutualLike: a like of the owner matches when it targets a
\* pet owned by the liker, or a pet whose id is in userAnimals
LikeMatches(l, likerUserId, userAnimalIds) ==
    \/ l.ownerId = likerUserId
    \/ l.likedAnimalId \in userAnimalIds

\* checkMutualLike(likerUserId, ownerId, userAnimals): the first matching like
\* of the owner, in document order, decides; none gives isMatch = false
checkMutualLike(u, userAnimalIds) ==
    /\ flow[u].pc = "checkMutualLike"
    /\ LET hits == {i \in OwnerLikes(likes, flow[u].owner) :
                       LikeMatches(likes[i], u, userAnimalIds)}
       IN  IF hits = {}
           THEN flow' = [flow EXCEPT ![u] = IdleFlow]
           ELSE LET first == CHOOSE i \in hits : \A j \in hits : i <= j
                IN  flow' = [flow EXCEPT ![u].pc = "saveMatch",
                                         ![u].matched = likes[first].likedAnimalId]
    /\ UNCHANGED <<likes, matches, likeOps, overlapped>>
    /\ UNCHANGED othersOfLike

\* the likes query of checkMutualLike fails: the catch returns isMatch = false
checkMutualLikeError(u) ==
    /\ flow[u].pc = "checkMutualLike"
    /\ flow' = [flow EXCEPT ![u] = IdleFlow]
    /\ UNCHANGED <<likes, matches, likeOps, overlapped>>
    /\ UNCHANGED othersOfLike

\* saveMatch(matchData): matchesCollection.add creates a new document with a
\* fresh id, whatever documents exist
saveMatch(u) ==
    /\ flow[u].pc = "saveMatch"
    /\ matches' = Append(matches, [userId1 |-> u, userId2 |-> flow[u].owner,
                                   animal1Id |-> flow[u].matched,
                                   animal2Id |-> flow[u].animal])
    /\ flow' = [flow EXCEPT ![u] = IdleFlow]
    /\ UNCHANGED <<likes, likeOps, overlapped>>
    /\ UNCHANGED othersOfLike

LikeNext ==
    \/ \E u \in Profiles, a \in Pets : LikeAnimal(u, a)
    \/ \E u \in Profiles : saveLike(u)
    \/ \E u \in Profiles : \E own \in SUBSET PetsOf(u) : checkMutualLike(u, own)
    \/ \E u \in Profiles : checkMutualLikeError(u)
    \/ \E u \in Profiles : saveMatch(u)

\* the match documents of the unordered pair {a, b}
MatchesOfPair(a, b) ==
    {i \in 1..Len(matches) : {matches[i].userId1, matches[i].userId2} = {a, b}}

LikesSettled == \A u \in Profiles : flow[u].pc = "idle"

\* C2: when each of the two profiles runs one like operation on a pet of the
\* other, with the steps of the two operations interleaved arbitrarily, at most
\* one match document exists for the pair.
C2_OneMatchUnderConcurrentLikes ==
    (\A u \in Profiles : likeOps[u] <= 1) => Cardinality(MatchesOfPair("u1", "u2")) <= 1

\* C3: after like operations that ran one after another (none overlapping
\* another), the matches collection holds at most one document per unordered
\* profile pair.
C3_OneMatchAfterSequentialLikes ==
    (~overlapped /\ LikesSettled) =>
        \A a \in Profiles, b \in Profiles : Cardinality(MatchesOfPair(a, b)) <= 1


\* the like operations when the likes query of checkMutualLike answers
LikeAnsweredNext ==
    \/ \E u \in Profiles, a \in Pets : LikeAnimal(u, a)
    \/ \E u \in Profiles : saveLike(u)
    \/ \E u \in Profiles : \E own \in SUBSET PetsOf(u) : checkMutualLike(u, own)
    \/ \E u \in Profiles : saveMatch(u)

\* one profile liked a pet of the other, and after that operation had ended
\* the other profile liked a pet of the first; both operations have ended
LikedBackAfterwards ==
    /\ ~overlapped
    /\ LikesSettled
    /\ \A u \in Profiles : likeOps[u] = 1

ReciprocalLike(u) ==
    \E i \in 1..Len(likes) :
        likes[i].likerUserId = flow[u].owner /\ likes[i].ownerId = u

\* checkMutualLike of profile u returns in this step
MatcherReturns(u) ==
    flow[u].pc = "checkMutualLike" /\ flow'[u].pc # "checkMutualLike"

MatcherFindsReciprocalLike ==
    \A u \in Profiles :
        (MatcherReturns(u) /\ ReciprocalLike(u)) =>
            /\ flow'[u].pc = "saveMatch"
            /\ \E i \in 1..Len(likes) :
                  /\ likes[i].likerUserId = flow[u].owner
                  /\ likes[i].likedAnimalId = flow'[u].matched

BothLikedAndChecked ==
    /\ \A u \in Profiles :
          /\ likeOps[u] >= 1
          /\ flow[u].pc \in {"idle", "saveMatch"}
          /\ \E i \in 1..Len(likes) :
                likes[i].likerUserId = u /\ Owner(likes[i].likedAnimalId) # u

\* a checkMutualLike has returned isMatch = true: its match is saved or is
\* about to be saved
SomeCheckMatched ==
    \/ matches # <<>>
    \/ \E u \in Profiles : flow[u].pc = "saveMatch"

\* C34: when U's like of a pet of O and O's like of a pet of U are both saved,
\* each side runs checkMutualLike only after its own saveLike has completed
\* and no likes query fails, then under every interleaving at least one of the
\* two checks reports isMatch = true.
C34_MutualLikeAlwaysMatches == BothLikedAndChecked => SomeCheckMatched

\* both profiles liked while the other's operation was in flight, both
\* checks have returned, and a match is saved
C34_Witness ==
    /\ BothLikedAndChecked
    /\ overlapped
    /\ LikesSettled
    /\ \A u \in Profiles : likeOps[u] = 1
    /\ matches # <<>>

\* the likes collection when a third profile and its pet take part
ThirdProfile == "u3"
ThirdPet     == "t1"
PetOwner(a)  == IF a = ThirdPet THEN ThirdProfile ELSE Owner(a)

\* the documents saveLike can have written: the like of a pet of another
\* profile, with the pet's owner as ownerId
LikeDocs ==
    {d \in [likerUserId : Profiles \cup {ThirdProfile},
             likedAnimalId : Pets \cup {ThirdPet},
             ownerId : Profiles \cup {ThirdProfile}] :
        /\ d.ownerId = PetOwner(d.likedAnimalId)
        /\ d.ownerId # d.likerUserId}

\* checkMutualLike(u, o, userAnimals) is about to run on a stored collection;
\* userAnimals holds pets of u
MatcherInputs ==
    /\ likes \in UNION {[1..n -> LikeDocs] : n \in 0..MaxStored}
    /\ matches = <<>>
    /\ \E u \in Profiles, a \in Pets :
          /\ Owner(a) # u
          /\ flow = [v \in Profiles |->
                        IF v = u THEN [IdleFlow EXCEPT !.pc = "checkMutualLike",
                                                       !.animal = a, !.owner = Owner(a)]
                                 ELSE IdleFlow]
          /\ likeOps = [v \in Profiles |-> IF v = u THEN 1 ELSE 0]
    /\ overlapped = FALSE

MatcherNext ==
    \/ \E u \in Profiles : \E own \in SUBSET PetsOf(u) : checkMutualLike(u, own)
    \/ \E u \in Profiles : saveMatch(u)

----------------------------------------------------------------------------
(* The chat screen: optimistic overlay and reconciliation *)

Me    == "u1"                      \* currentUser.id
Peer  == "u2"                      \* otherUserId
ReconcileWindowMs == 5000          \* Math.abs(...) < 5000
TimePoints == {0, 200, 5000}      \* clock readings and server timestamps (ms)

\* what the user can have typed: texts are sequences of characters
RawInputs == {<<>>, <<" ">>, <<" ", "h", " ">>, <<"y">>}

\* what the other participant sends
PeerTexts == {<<"h">>}

RECURSIVE TrimStart(_)
TrimStart(s) == IF s # <<>> /\ Head(s) = " " THEN TrimStart(Tail(s)) ELSE s

RECURSIVE TrimEnd(_)
TrimEnd(s) ==
    IF s # <<>> /\ s[Len(s)] = " " THEN TrimEnd(SubSeq(s, 1, Len(s) - 1)) ELSE s

\* String.prototype.trim
Trim(s) == TrimEnd(TrimStart(s))

Abs(x) == IF x < 0 THEN -x ELSE x

\* msg.id.startsWith('temp-')
IsTemp(m) == m.id.temp

TempId(n) == [temp |-> TRUE, n |-> n]
DocId(n)  == [temp |-> FALSE, n |-> n]

IdleSend == [pc |-> "idle", tempId |-> TempId(0), messageText |-> <<>>]

ScreenInit ==
    /\ now = 0
    /\ srv = <<>>
    /\ messages = <<>>
    /\ inputText = <<>>
    /\ sending = FALSE
    /\ send = IdleSend
    /\ sendCount = 0
    /\ listener = [open |-> TRUE, delivered |-> 0]
    /\ lastSnapshot = <<>>
    /\ history = [n \in 1..MaxSends |-> [doc |-> 0, failed |-> FALSE]]

\* a match rule that asks for equal timestamps
MatchRuleSameInstant(realMsg, optMsg) ==
    /\ realMsg.text = optMsg.text
    /\ realMsg.senderId = optMsg.senderId
    /\ realMsg.timestamp = optMsg.timestamp

\* a match rule whose window includes a difference of exactly 5000 ms
MatchRuleInclusive(realMsg, optMsg) ==
    /\ realMsg.text = optMsg.text
    /\ realMsg.senderId = optMsg.senderId
    /\ Abs(realMsg.timestamp - optMsg.timestamp) <= ReconcileWindowMs

\* the match rule of the merge: same text, same sender, timestamps less than
\* 5000 ms apart
MatchRule(realMsg, optMsg) ==
    /\ realMsg.text = optMsg.text
    /\ realMsg.senderId = optMsg.senderId
    /\ Abs(realMsg.timestamp - optMsg.timestamp) < ReconcileWindowMs

Filter(s, Test(_)) == SelectSeq(s, Test)

Range(s) == {s[i] : i \in 1..Len(s)}

\* Array.prototype.sort with (a, b) => a.timestamp - b.timestamp: a stable
\* insertion into timestamp order
RECURSIVE InsertByTimestamp(_, _)
InsertByTimestamp(sorted, m) ==
    IF sorted = <<>> THEN <<m>>
    ELSE IF sorted[Len(sorted)].timestamp <= m.timestamp THEN Append(sorted, m)
    ELSE Append(InsertByTimestamp(SubSeq(sorted, 1, Len(sorted) - 1), m),
                sorted[Len(sorted)])

\* a sort that leaves the list as it is
SortKeepingOrder(s) == s

RECURSIVE SortByTimestamp(_)
SortByTimestamp(s) ==
    IF s = <<>> THEN <<>>
    ELSE InsertByTimestamp(SortByTimestamp(SubSeq(s, 1, Len(s) - 1)), s[Len(s)])

\* the optimistic messages the merge drops (replacedOptimisticIds)
ReplacedOptimistic(prev, newMessages) ==
    LET realMessages == Filter(newMessages, LAMBDA m : ~IsTemp(m))
    IN  {o \in Range(prev) :
            IsTemp(o) /\ \E i \in 1..Len(realMessages) : MatchRule(realMessages[i], o)}

\* a merge that replaces the list by the snapshot, losing every pending message
MergeMessagesReplacing(prev, newMessages) ==
    SortByTimestamp(Filter(newMessages, LAMBDA m : ~IsTemp(m)))

\* the updater passed to setMessages by the getChatMessages callback
MergeMessages(prev, newMessages) ==
    LET optimisticMessages == Filter(prev, IsTemp)
        realMessages == Filter(newMessages, LAMBDA m : ~IsTemp(m))
        replacedOptimisticIds == {o.id : o \in ReplacedOptimistic(prev, newMessages)}
        remainingOptimistic ==
            Filter(optimisticMessages, LAMBDA m : m.id \notin replacedOptimisticIds)
    IN  SortByTimestamp(realMessages \o remainingOptimistic)

\* the list getChatMessages hands to its callback for the first k confirmed
\* messages: ordered by timestamp, oldest first
SnapshotList(k) == SortByTimestamp(SubSeq(srv, 1, k))

\* the server clock never runs backwards: a server timestamp is not earlier
\* than that of the message committed before
ServerTime(ts) == IF srv = <<>> THEN TRUE ELSE ts >= srv[Len(srv)].timestamp

\* onChangeText={setInputText}
TypeText(raw) ==
    /\ inputText # raw
    /\ inputText' = raw
    /\ UNCHANGED <<now, srv, messages, sending, send, sendCount, listener,
                   lastSnapshot, history>>
    /\ UNCHANGED othersOfScreen

\* the chat screen of chat c1, opened by a signed-in profile
GuardInit ==
    /\ routeChatId = "c1"
    /\ currentUserId = Me
    /\ presses = 0

\* the chat screen opened with or without a chat id, by no profile, by the
\* placeholder profile or by a signed-in profile
GuardInputs ==
    /\ routeChatId \in {"", "c1"}
    /\ currentUserId \in {"", "user1", Me}
    /\ presses = 0

\* a guard that tests the input text without trimming it
SendGuardPassesUntrimmed ==
    /\ inputText # <<>>
    /\ routeChatId # ""
    /\ currentUserId # ""
    /\ currentUserId # "user1"
    /\ ~sending

\* the negation of the test handleSendMessage returns on:
\*   !inputText.trim() || !chatId || !currentUser.id
\*     || currentUser.id === 'user1' || sending
SendGuardPasses ==
    /\ Trim(inputText) # <<>>
    /\ routeChatId # ""
    /\ currentUserId # ""
    /\ currentUserId # "user1"
    /\ ~sending

\* handleSendMessage returns at its guard
handleSendMessageReturns ==
    /\ ~SendGuardPasses
    /\ presses < MaxPresses
    /\ presses' = presses + 1
    /\ UNCHANGED <<routeChatId, currentUserId>>
    /\ UNCHANGED othersOfGuard

\* handleSendMessage up to its await: the guard, then the optimistic message;
\* t is the clock reading of new Date(), never earlier than the previous one
handleSendMessage(t) ==
    /\ t >= now
    /\ now' = t
    /\ SendGuardPasses
    /\ sendCount < MaxSends
    /\ LET tempId == TempId(sendCount + 1)
           optimisticMessage == [id |-> tempId, senderId |-> Me,
                                 text |-> Trim(inputText), timestamp |-> t]
       IN  /\ messages' = Append(messages, optimisticMessage)
           /\ send' = [pc |-> "awaiting", tempId |-> tempId,
                       messageText |-> Trim(inputText)]
    /\ inputText' = <<>>
    /\ sending' = TRUE
    /\ sendCount' = sendCount + 1
    /\ UNCHANGED <<srv, listener, lastSnapshot, history>>
    /\ UNCHANGED othersOfScreen

\* the transaction of sendMessage commits: the message document exists, with
\* the timestamp the server assigns
SendCommitted(ts) ==
    /\ send.pc = "awaiting"
    /\ Len(srv) < MaxSrv
    /\ ServerTime(ts)
    /\ srv' = Append(srv, [id |-> DocId(Len(srv) + 1), senderId |-> Me,
                           text |-> send.messageText, timestamp |-> ts])
    /\ send' = [send EXCEPT !.pc = "committed"]
    /\ history' = [history EXCEPT ![send.tempId.n].doc = Len(srv) + 1]
    /\ UNCHANGED <<now, messages, inputText, sending, sendCount, listener,
                   lastSnapshot>>
    /\ UNCHANGED othersOfScreen

\* await sendMessage(...) resolves: finally { setSending(false) }
SendResolved ==
    /\ send.pc = "committed"
    /\ send' = IdleSend
    /\ sending' = FALSE
    /\ UNCHANGED <<now, srv, messages, inputText, sendCount, listener,
                   lastSnapshot, history>>
    /\ UNCHANGED othersOfScreen

\* a catch block that leaves the optimistic message in the list
RollBackKeeping(prev, tempId) == prev

\* the catch block: the optimistic message is removed, the input text restored
RollBack(prev, tempId) == Filter(prev, LAMBDA m : m.id # tempId)

\* await sendMessage(...) rejects: catch, then finally
SendRejected ==
    /\ send.pc = "awaiting"
    /\ messages' = RollBack(messages, send.tempId)
    /\ inputText' = send.messageText
    /\ sending' = FALSE
    /\ history' = [history EXCEPT ![send.tempId.n].failed = TRUE]
    /\ send' = IdleSend
    /\ UNCHANGED <<now, srv, sendCount, listener, lastSnapshot>>
    /\ UNCHANGED othersOfScreen

\* the other participant's message is committed
PeerMessage(t, ts) ==
    /\ Len(srv) < MaxSrv
    /\ ServerTime(ts)
    /\ srv' = Append(srv, [id |-> DocId(Len(srv) + 1), senderId |-> Peer,
                           text |-> t, timestamp |-> ts])
    /\ UNCHANGED <<now, messages, inputText, sending, send, sendCount, listener,
                   lastSnapshot, history>>
    /\ UNCHANGED othersOfScreen

\* the getChatMessages callback runs with the list newMessages
OnMessages(newMessages) ==
    /\ messages' = MergeMessages(messages, newMessages)
    /\ lastSnapshot' = newMessages

\* the listener delivers a snapshot holding the first k confirmed messages
Snapshot(k) ==
    /\ listener.open
    /\ k >= listener.delivered
    /\ k <= Len(srv)
    /\ OnMessages(SnapshotList(k))
    /\ listener' = [listener EXCEPT !.delivered = k]
    /\ UNCHANGED <<now, srv, inputText, sending, send, sendCount, history>>
    /\ UNCHANGED othersOfScreen

\* the listener fails: the error handler calls callback([]) and the stream ends
SnapshotError ==
    /\ listener.open
    /\ OnMessages(<<>>)
    /\ listener' = [listener EXCEPT !.open = FALSE]
    /\ UNCHANGED <<now, srv, inputText, sending, send, sendCount, history>>
    /\ UNCHANGED othersOfScreen

ScreenNext ==
    \/ \E raw \in RawInputs : TypeText(raw)
    \/ \E t \in TimePoints : handleSendMessage(t)
    \/ \E ts \in TimePoints : SendCommitted(ts)
    \/ SendResolved
    \/ SendRejected
    \/ \E t \in PeerTexts, ts \in TimePoints : PeerMessage(t, ts)
    \/ \E k \in 0..MaxSrv : Snapshot(k)
    \/ SnapshotError

\* the send button of the chat screen: every handleSendMessage call, the ones
\* that return at the guard included, and what follows a call that sends
SendGuardNext ==
    \/ \E raw \in RawInputs : TypeText(raw)
    \/ handleSendMessageReturns
    \/ \E t \in TimePoints : handleSendMessage(t)
    \/ \E ts \in TimePoints : SendCommitted(ts)
    \/ SendResolved
    \/ SendRejected
    \/ \E k \in 0..MaxSrv : Snapshot(k)


----------------------------------------------------------------------------
(* Properties of the chat screen *)

ListedIds == {m.id : m \in Range(messages)}

\* C5: the list never holds both the temp- entry of a send and the confirmed
\* message that send committed, whatever timestamp the server assigned.
C5_NoPendingBesideConfirmed ==
    \A n \in 1..MaxSends :
        ~(TempId(n) \in ListedIds /\ history[n].doc # 0
            /\ DocId(history[n].doc) \in ListedIds)

\* C6: a temp- message leaves the list only in a step that merges a snapshot
\* holding a confirmed message that satisfies the match rule with it, or in the
\* step in which its send fails; empty snapshots and the empty list of a
\* stream error leave it in place.
PendingLeavesOnlyReconciledOrFailed ==
    \A m \in Range(messages) :
        (IsTemp(m) /\ m.id \notin {x.id : x \in Range(messages')}) =>
            \/ history'[m.id.n].failed
            \/ \E c \in Range(lastSnapshot') : ~IsTemp(c) /\ MatchRule(c, m)

C6_PendingStaysUntilReconciledOrFailed == [][PendingLeavesOnlyReconciledOrFailed]_vars

\* a pending message is listed, its send is still awaited, and the stream has
\* failed and delivered the empty list
C6_Witness ==
    /\ send.pc = "awaiting"
    /\ send.tempId \in ListedIds
    /\ ~listener.open
    /\ lastSnapshot = <<>>

\* C7: in every merge, each confirmed message of the snapshot accounts for at
\* most one dropped pending message.
OneDropPerConfirmed ==
    \A c \in Range(lastSnapshot') :
        Cardinality({m \in Range(messages) :
                        /\ IsTemp(m)
                        /\ m.id \notin {x.id : x \in Range(messages')}
                        /\ ~history'[m.id.n].failed
                        /\ MatchRule(c, m)}) <= 1

C7_OneDropPerConfirmed == [][OneDropPerConfirmed]_vars

\* C8: the step in which sendMessage rejects leaves no entry with the send's
\* temp id in the list and sets the input to the trimmed text that was
\* submitted; no later step brings the entry back.
FailedSendRolledBack ==
    /\ \A n \in 1..MaxSends :
          history'[n].failed => TempId(n) \notin {x.id : x \in Range(messages')}
    /\ (sendCount' = sendCount + 1) => send'.messageText = Trim(inputText)
    /\ \A n \in 1..MaxSends :
          (history'[n].failed /\ ~history[n].failed) =>
              /\ send.tempId = TempId(n)
              /\ inputText' = send.messageText

C8_FailedSendRollsBack == [][FailedSendRolledBack]_vars

\* a send of a text typed with surrounding blanks has failed after a snapshot
\* with the peer's message was merged; the input holds the trimmed text
C8_Witness ==
    /\ history[1].failed
    /\ send.pc = "idle"
    /\ inputText = <<"h">>
    /\ Len(messages) = 1
    /\ ~IsTemp(messages[1])

\* the only send so far was made at local time now, its message was confirmed
\* with a timestamp 200 ms later, and the last merged snapshot holds it
ConfirmedShortlyAfter ==
    /\ sendCount = 1
    /\ history[1].doc # 0
    /\ srv[history[1].doc].timestamp = now + 200
    /\ DocId(history[1].doc) \in {x.id : x \in Range(lastSnapshot)}

\* C14: when a message sent optimistically at local time t is confirmed with a
\* timestamp 0.2 s later and the snapshot holding it has been merged, the list
\* holds exactly one entry with the sender and the text of the send, and that
\* entry is the confirmed message.
C14_OneConfirmedEntryAfterReconcile ==
    ConfirmedShortlyAfter =>
        LET mine == {i \in 1..Len(messages) :
                        /\ messages[i].senderId = Me
                        /\ messages[i].text = srv[history[1].doc].text}
        IN  /\ Cardinality(mine) = 1
            /\ \A i \in mine : messages[i].id = DocId(history[1].doc)

\* the send at local time 0 was confirmed at 200 and merged
C14_Witness ==
    /\ ConfirmedShortlyAfter
    /\ now = 0
    /\ Len(messages) = 1

\* a step of the getChatMessages callback: nothing but the list, the last
\* snapshot and the listener changes
SnapshotMerged ==
    /\ UNCHANGED <<now, srv, inputText, sending, send, sendCount, history>>
    /\ <<messages, lastSnapshot, listener>>' # <<messages, lastSnapshot, listener>>

\* C20: after every snapshot merge the list is in ascending order of
\* timestamp, and no pending entry is listed with a confirmed entry of the
\* same sender and text less than 5 seconds away from it.
SortedAndReconciledAfterMerge ==
    SnapshotMerged =>
        /\ \A i, j \in 1..Len(messages') :
              i < j => messages'[i].timestamp <= messages'[j].timestamp
        /\ \A i, j \in 1..Len(messages') :
              (IsTemp(messages'[i]) /\ ~IsTemp(messages'[j])) =>
                  ~MatchRule(messages'[j], messages'[i])

C20_SortedAndReconciledAfterMerge == [][SortedAndReconciledAfterMerge]_vars

\* a merge has left a pending message, sent at local time 0, in front of the
\* confirmed messages of the snapshot
C20_Witness ==
    /\ Len(messages) = 2
    /\ IsTemp(messages[1])
    /\ ~IsTemp(messages[2])
    /\ lastSnapshot # <<>>
    /\ messages[1].timestamp < messages[2].timestamp

\* C18: every pending (temp-) message eventually leaves the list: one that is
\* neither reconciled nor rolled back is dropped when the timeout expires.
C18_PendingEventuallyLeaves ==
    \A n \in 1..MaxSends :
        (TempId(n) \in ListedIds) ~> (TempId(n) \notin ListedIds)

\* the snapshot holds a confirmed message of the same sender and text, less
\* than 5000 ms away from the pending message m
ConfirmedWithinWindow(m, snapshot) ==
    \E c \in Range(snapshot) :
        /\ ~IsTemp(c)
        /\ c.senderId = m.senderId
        /\ c.text = m.text
        /\ c.timestamp - m.timestamp < 5000
        /\ m.timestamp - c.timestamp < 5000

PendingDroppedIffConfirmedWithinWindow ==
    SnapshotMerged =>
        \A m \in Range(messages) :
            IsTemp(m) => ((m.id \notin {x.id : x \in Range(messages')})
                            <=> ConfirmedWithinWindow(m, lastSnapshot'))

\* C26: a snapshot merge drops a pending message if and only if the snapshot
\* holds a confirmed message with the same senderId, the same text and a
\* timestamp strictly less than 5000 ms away; at exactly 5000 ms the pending
\* message stays.
C26_PendingDroppedIffConfirmedWithinWindow ==
    [][PendingDroppedIffConfirmedWithinWindow]_vars

\* a merge has kept a pending message although the snapshot holds a confirmed
\* message of the same sender and text exactly 5000 ms later
C26_Witness ==
    /\ listener.delivered >= 1
    /\ \E m \in Range(messages) : \E c \in Range(lastSnapshot) :
          /\ IsTemp(m) /\ ~IsTemp(c)
          /\ c.senderId = m.senderId /\ c.text = m.text
          /\ c.timestamp - m.timestamp = 5000

\* what the claim calls an invalid send: empty or whitespace-only input, no
\* chat id, or no real current profile id
InvalidSend ==
    \/ Trim(inputText) = <<>>
    \/ routeChatId = ""
    \/ currentUserId = ""
    \/ currentUserId = "user1"

TempIdsListed == {m.id : m \in {x \in Range(messages) : IsTemp(x)}}

InvalidSendChangesNothing ==
    InvalidSend =>
        /\ TempIdsListed' \subseteq TempIdsListed
        /\ sendCount' = sendCount
        /\ send'.pc = "awaiting" => send.pc = "awaiting"
        /\ presses' # presses => UNCHANGED <<messages, srv, inputText, sending, send>>

\* C29: handleSendMessage invoked with empty or whitespace-only input, with no
\* chat id, or with no real current profile id calls no sendMessage and adds
\* no pending message; the message list and the store stay as they are.
C29_InvalidSendChangesNothing == [][InvalidSendChangesNothing]_vars

\* handleSendMessage has returned at its guard on whitespace-only input, with
\* a chat id and a real profile id
C29_Witness ==
    /\ presses = 1
    /\ inputText = <<" ">>
    /\ routeChatId # "" /\ currentUserId = Me
    /\ messages = <<>> /\ srv = <<>> /\ sendCount = 0

\* a pending message that leaves the list without a failed send leaves it in a
\* merge of a snapshot that holds the message its own send committed
PendingDroppedByOwnConfirmation ==
    \A m \in Range(messages) :
        (/\ IsTemp(m)
         /\ m.id \notin {x.id : x \in Range(messages')}
         /\ ~history'[m.id.n].failed) =>
            /\ history'[m.id.n].doc # 0
            /\ DocId(history'[m.id.n].doc) \in {c.id : c \in Range(lastSnapshot')}

\* C36: reconciliation removes a pending message only when the confirmed
\* message it is matched with was written by the same send: a pending message
\* is never dropped because of an earlier confirmed message with the same
\* sender and text, so a sent text does not leave the list before its own
\* confirmation arrives.
C36_PendingDroppedByOwnConfirmation == [][PendingDroppedByOwnConfirmation]_vars

----------------------------------------------------------------------------
(* getUserMatchesRealtime: the merge of the userId1 and userId2 queries *)

LocalUser  == "u1"                       \* the userId argument
Queries    == {"userId1", "userId2"}     \* queryName
MatchIds   == {"m1", "m2"}
MatchTimes == {1, 2}                     \* createdAt

\* the match documents the role query q can deliver
MatchDocs(q) ==
    {[id |-> i, userId1 |-> a, userId2 |-> b, timestamp |-> t] :
        i \in MatchIds, a \in Profiles, b \in Profiles, t \in MatchTimes}
    \cap {d \in [id : MatchIds, userId1 : Profiles, userId2 : Profiles,
                 timestamp : MatchTimes] :
            IF q = "userId1" THEN d.userId1 = LocalUser ELSE d.userId2 = LocalUser}

\* the result sets of a query: at most one document per id
ResultSets(q) ==
    {R \in SUBSET MatchDocs(q) : \A d \in R, e \in R : d.id = e.id => d = e}

MergeInit ==
    /\ matchesMap = <<>>
    /\ isFirstLoad = [q \in Queries |-> TRUE]
    /\ delivered = <<>>
    /\ results = [q \in Queries |-> {}]
    /\ events = <<>>
    /\ replay = [on |-> FALSE, pos |-> 0, map |-> <<>>, list |-> <<>>]

\* a set of documents as the sequence forEach visits: in document id order
RECURSIVE InIdOrder(_)
InIdOrder(D) ==
    IF D = {} THEN <<>>
    ELSE LET d == CHOOSE x \in D : \A y \in D : (y.id = "m1") => (x.id = "m1")
         IN  <<d>> \o InIdOrder(D \ {d})

\* matchesMap.set(id, match): an existing key keeps its place, a new key goes last
MapSet(map, m) ==
    IF \E i \in 1..Len(map) : map[i].id = m.id
    THEN [i \in 1..Len(map) |-> IF map[i].id = m.id THEN m ELSE map[i]]
    ELSE Append(map, m)

\* matchesMap.delete(id)
MapDelete(map, id) == SelectSeq(map, LAMBDA m : m.id # id)

RECURSIVE MapSetAll(_, _)
MapSetAll(map, ds) ==
    IF ds = <<>> THEN map ELSE MapSetAll(MapSet(map, Head(ds)), Tail(ds))

\* snapshot.docChanges(): what changed in the result set since the query's
\* previous snapshot
DocChanges(old, new) ==
    [removed  |-> {d \in old : ~\E e \in new : e.id = d.id},
     added    |-> {d \in new : ~\E e \in old : e.id = d.id},
     modified |-> {d \in new : \E e \in old : e.id = d.id /\ e # d}]

\* the first-load branch without the role test: every entry the snapshot lacks
\* is deleted
FirstLoadClearing(map, q, docs) ==
    LET set == MapSetAll(map, InIdOrder(docs))
        currentDocIds == {d.id : d \in docs}
    IN  SelectSeq(set, LAMBDA m : m.id \in currentDocIds)

\* the first-load branch of handleSnapshot: every document is set, then the
\* entries of this query's role that the snapshot lacks are deleted
FirstLoad(map, q, docs) ==
    LET set == MapSetAll(map, InIdOrder(docs))
        currentDocIds == {d.id : d \in docs}
        stale(m) == /\ m.id \notin currentDocIds
                    /\ IF q = "userId1" THEN m.userId1 = LocalUser
                                        ELSE m.userId2 = LocalUser
    IN  SelectSeq(set, LAMBDA m : ~stale(m))

\* the docChanges branch of handleSnapshot: removed changes delete, the others set
ApplyChanges(map, ch) ==
    LET gone == {d.id : d \in ch.removed}
        kept == SelectSeq(map, LAMBDA m : m.id \notin gone)
    IN  MapSetAll(MapSetAll(kept, InIdOrder(ch.added)), InIdOrder(ch.modified))

\* handleSnapshot(snapshot, isFirstLoad, queryName), up to processMatches
handleSnapshot(map, first, ev) ==
    IF first THEN FirstLoad(map, ev.q, ev.docs) ELSE ApplyChanges(map, ev.changes)

\* allMatches.sort((a, b) => b.timestamp - a.timestamp): stable, newest first
RECURSIVE InsertNewestFirst(_, _)
InsertNewestFirst(sorted, m) ==
    IF sorted = <<>> THEN <<m>>
    ELSE IF sorted[Len(sorted)].timestamp >= m.timestamp THEN Append(sorted, m)
    ELSE Append(InsertNewestFirst(SubSeq(sorted, 1, Len(sorted) - 1), m),
                sorted[Len(sorted)])

RECURSIVE SortNewestFirst(_)
SortNewestFirst(s) ==
    IF s = <<>> THEN <<>>
    ELSE InsertNewestFirst(SortNewestFirst(SubSeq(s, 1, Len(s) - 1)), s[Len(s)])

\* processMatches: the list handed to the callback
processMatches(map) == SortNewestFirst(map)

\* the listener of query q delivers a snapshot with result set R
OnSnapshot(q, R) ==
    /\ ~replay.on
    /\ Len(events) < MaxEvents
    /\ isFirstLoad[q] \/ R # results[q]
    /\ LET ev == [q |-> q, docs |-> R, changes |-> DocChanges(results[q], R)]
           map == handleSnapshot(matchesMap, isFirstLoad[q], ev)
       IN  /\ matchesMap' = map
           /\ delivered' = processMatches(map)
           /\ events' = Append(events, ev)
    /\ isFirstLoad' = [isFirstLoad EXCEPT ![q] = FALSE]
    /\ results' = [results EXCEPT ![q] = R]
    /\ UNCHANGED replay
    /\ UNCHANGED othersOfMerge

\* query q has delivered a snapshot before
HadSnapshot(q) == \E i \in 1..Len(events) : events[i].q = q

\* services/matchService.ts: the listener of query q sets every document of
\* the snapshot in matchesMap and calls processMatches; nothing is deleted
OnSnapshotSetOnly(q, R) ==
    /\ Len(events) < MaxEvents
    /\ ~HadSnapshot(q) \/ R # results[q]
    /\ LET ev == [q |-> q, docs |-> R, changes |-> DocChanges(results[q], R)]
           map == MapSetAll(matchesMap, InIdOrder(R))
       IN  /\ matchesMap' = map
           /\ delivered' = processMatches(map)
           /\ events' = Append(events, ev)
    /\ results' = [results EXCEPT ![q] = R]
    /\ UNCHANGED <<isFirstLoad, replay>>
    /\ UNCHANGED othersOfMerge

MergeSetOnlyNext ==
    \E q \in Queries : \E R \in ResultSets(q) : OnSnapshotSetOnly(q, R)

\* the delivered snapshots are about to be delivered a second time
StartReplay ==
    /\ ~replay.on
    /\ events # <<>>
    /\ replay' = [on |-> TRUE, pos |-> 1, map |-> matchesMap, list |-> delivered]
    /\ UNCHANGED <<matchesMap, isFirstLoad, delivered, results, events>>
    /\ UNCHANGED othersOfMerge

\* the next snapshot of the sequence is handed to its listener again
ReplaySnapshot ==
    /\ replay.on
    /\ replay.pos <= Len(events)
    /\ LET ev == events[replay.pos]
           map == handleSnapshot(matchesMap, isFirstLoad[ev.q], ev)
       IN  /\ matchesMap' = map
           /\ delivered' = processMatches(map)
           /\ isFirstLoad' = [isFirstLoad EXCEPT ![ev.q] = FALSE]
    /\ replay' = [replay EXCEPT !.pos = replay.pos + 1]
    /\ UNCHANGED <<results, events>>
    /\ UNCHANGED othersOfMerge

MergeNext ==
    \/ \E q \in Queries : \E R \in ResultSets(q) : OnSnapshot(q, R)
    \/ StartReplay
    \/ ReplaySnapshot

Replayed == replay.on /\ replay.pos > Len(events)

\* C4: after the delivered sequence of snapshots has been replayed onto the
\* state it produced, matchesMap and the list handed to the callback are what
\* they were after the first pass.
C4_ReplayIdempotent ==
    Replayed => (matchesMap = replay.map /\ delivered = replay.list)

\* the map entry with the given id, as a set (empty when the id is not a key)
MapEntries(map, id) == {m \in Range(map) : m.id = id}

\* the local profile holds the role of query q in the entry m
HoldsRole(m, q) ==
    IF q = "userId1" THEN m.userId1 = LocalUser ELSE m.userId2 = LocalUser

\* the step is the first snapshot of a role query
FirstSnapshotStep ==
    /\ Len(events') = Len(events) + 1
    /\ isFirstLoad[events'[Len(events')].q]

\* what the first snapshot of query P does to matchesMap
FirstSnapshotEffect ==
    FirstSnapshotStep =>
        LET ev  == events'[Len(events')]
            ids == {d.id : d \in ev.docs}
        IN  /\ \A m \in Range(matchesMap) :
                  (HoldsRole(m, ev.q) /\ m.id \notin ids)
                      => MapEntries(matchesMap', m.id) = {}
            /\ \A d \in ev.docs : MapEntries(matchesMap', d.id) = {d}
            /\ \A m \in Range(matchesMap) :
                  (~HoldsRole(m, ev.q) /\ m.id \notin ids)
                      => MapEntries(matchesMap', m.id) = {m}
            /\ {m.id : m \in Range(matchesMap')}
                   \subseteq {m.id : m \in Range(matchesMap)} \cup ids

LaterSnapshotStep ==
    /\ Len(events') = Len(events) + 1
    /\ HadSnapshot(events'[Len(events')].q)

\* what a later snapshot does to matchesMap
LaterSnapshotEffect ==
    LaterSnapshotStep =>
        LET ch == events'[Len(events')].changes
        IN  /\ \A d \in ch.removed : MapEntries(matchesMap', d.id) = {}
            /\ \A d \in ch.added \cup ch.modified : MapEntries(matchesMap', d.id) = {d}
            /\ \A m \in Range(matchesMap) :
                  (\A d \in ch.removed \cup ch.added \cup ch.modified : d.id # m.id)
                      => MapEntries(matchesMap', m.id) = {m}

\* C22: every event after a query's first snapshot deletes the id of a
\* 'removed' change from matchesMap and upserts the document of an 'added' or
\* 'modified' change, so that for an id both queries deliver the map holds the
\* value of the most recently processed event.
C22_LaterEventsDeleteAndUpsert == [][LaterSnapshotEffect]_vars

----------------------------------------------------------------------------
(* getChatId: the chat id of two profiles *)

Chars == {"A", "_", "a", "b"}

\* the UTF-16 code unit of a character
CodeUnit(c) == CASE c = "A" -> 65 [] c = "_" -> 95 [] c = "a" -> 97 [] c = "b" -> 98

\* profile ids: non-empty strings, as sequences of characters
ProfileIds == UNION {[1..n -> Chars] : n \in 1..MaxIdLen}

\* x < y on strings: by code units, a proper prefix first
RECURSIVE StringLess(_, _)
StringLess(x, y) ==
    IF y = <<>> THEN FALSE
    ELSE IF x = <<>> THEN TRUE
    ELSE IF Head(x) = Head(y) THEN StringLess(Tail(x), Tail(y))
    ELSE CodeUnit(Head(x)) < CodeUnit(Head(y))

\* a sort that leaves the array as it is
SortPairKeeping(pair) == pair

\* Array.prototype.sort() without a comparator, on an array of two strings
SortPair(pair) ==
    IF StringLess(pair[2], pair[1]) THEN <<pair[2], pair[1]>> ELSE pair

\* Array.prototype.join('_') on an array of two strings
JoinPair(pair) == pair[1] \o <<"_">> \o pair[2]

getChatId(userId1, userId2) == JoinPair(SortPair(<<userId1, userId2>>))

ChatIdInit ==
    /\ userIds = <<<<"a">>, <<"a">>>>
    /\ chatId = <<>>

ChatIdInputs ==
    /\ userIds \in ProfileIds \X ProfileIds
    /\ chatId = <<>>

GetChatId ==
    /\ chatId = <<>>
    /\ chatId' = getChatId(userIds[1], userIds[2])
    /\ UNCHANGED userIds
    /\ UNCHANGED othersOfChatId

ChatIdNext == GetChatId

\* C12: getChatId(a, b) = getChatId(b, a), and the result is the two ids in
\* lexicographic order joined with "_".
C12_ChatIdSymmetricAndSorted ==
    chatId # <<>> =>
        /\ chatId = getChatId(userIds[2], userIds[1])
        /\ \E x, y \in {userIds[1], userIds[2]} :
              /\ {x, y} = {userIds[1], userIds[2]}
              /\ ~StringLess(y, x)
              /\ chatId = x \o <<"_">> \o y

\* getChatId has returned for two ids given in descending order
C12_Witness ==
    /\ chatId # <<>>
    /\ StringLess(userIds[2], userIds[1])

\* C31: distinct unordered pairs of profile ids get distinct chat ids:
\* whenever getChatId(c, d) equals the id returned for (a, b), {c, d} = {a, b},
\* for all ids, ids containing "_" included.
C31_DistinctPairsDistinctChatIds ==
    chatId # <<>> =>
        \A c, d \in ProfileIds :
            getChatId(c, d) = chatId => {c, d} = {userIds[1], userIds[2]}

----------------------------------------------------------------------------
(* getUserChats: the chat list of a profile *)

ChatIds == {"c1", "c2", "c3"}
ChatIdOrder == <<"c1", "c2", "c3">>        \* the order in which a query lists them
Roles == {"userId1", "userId2", "both"}    \* which field of the chat holds userId

NoTime == -1                               \* a chat document without lastMessageTime

IdleLoad == [pc |-> "idle", snapshot1 |-> <<>>, snapshot2 |-> <<>>]

\* before getUserChats is called: every chat was created with the profile as
\* userId1 and has had no message since; no listener is attached
ChatsInit ==
    /\ chatDocs = [c \in ChatIds |-> [role |-> "userId1", lastMessageTime |-> 1]]
    /\ loads = [i \in 1..MaxLoads |-> IdleLoad]
    /\ chatList = [called |-> FALSE, calls |-> 0, list |-> <<>>]
    /\ chatsListeners = [q \in {"userId1", "userId2"} |-> "unsubscribed"]
    /\ chatsChanged = FALSE

\* getUserChats has returned: both listeners are attached and the initial
\* processChats() waits for snapshot1. The profile is userId1 of c1, userId1
\* or both participants of c2, and userId2 or both participants of c3; c1 may
\* still lack its lastMessageTime
ChatsStored ==
    /\ chatDocs \in {f \in [ChatIds -> [role : Roles, lastMessageTime : {NoTime, 1}]] :
                        /\ f["c1"].role = "userId1"
                        /\ f["c2"].lastMessageTime = 1
                        /\ f["c3"].lastMessageTime = 1
                        /\ f["c2"].role # "userId2"
                        /\ f["c3"].role # "userId1"}
    /\ loads = [i \in 1..MaxLoads |-> IF i = 1 THEN [IdleLoad EXCEPT !.pc = "get1"]
                                                ELSE IdleLoad]
    /\ chatList = [called |-> FALSE, calls |-> 0, list |-> <<>>]
    /\ chatsListeners = [q \in {"userId1", "userId2"} |-> "listening"]
    /\ chatsChanged = FALSE

\* chatsCollection.where(field, '==', userId).get(), as forEach visits it
RoleQuery(field) ==
    LET hit(c) == chatDocs[c].role \in {field, "both"}
        doc(c) == [id |-> c, lastMessageTime |-> chatDocs[c].lastMessageTime]
        F[k \in 0..Len(ChatIdOrder)] ==
            IF k = 0 THEN <<>>
            ELSE IF hit(ChatIdOrder[k]) THEN Append(F[k - 1], doc(ChatIdOrder[k]))
                 ELSE F[k - 1]
    IN  F[Len(ChatIdOrder)]

\* a list that keeps every entry of both snapshots
UniqueChatsKeeping(allChats) == allChats

\* Array.from(new Map(allChats.map(chat => [chat.id, chat])).values()): one
\* entry per id, at the position of the id's first entry, holding its last entry
UniqueChats(allChats) ==
    LET last(k) ==
            CHOOSE j \in k..Len(allChats) :
                /\ allChats[j].id = allChats[k].id
                /\ \A l \in (j + 1)..Len(allChats) : allChats[l].id # allChats[k].id
        F[k \in 0..Len(allChats)] ==
            IF k = 0 THEN <<>>
            ELSE IF \E j \in 1..(k - 1) : allChats[j].id = allChats[k].id
                 THEN F[k - 1]
                 ELSE Append(F[k - 1], allChats[last(k)])
    IN  F[Len(allChats)]

\* a.lastMessageTime?.getTime() || 0
LastMessageKey(c) == IF c.lastMessageTime = NoTime THEN 0 ELSE c.lastMessageTime

\* chatsWithUserData.sort((a, b) => timeB - timeA): stable, newest first
RECURSIVE InsertByLastMessageTime(_, _)
InsertByLastMessageTime(sorted, c) ==
    IF sorted = <<>> THEN <<c>>
    ELSE IF LastMessageKey(Head(sorted)) >= LastMessageKey(c)
         THEN <<Head(sorted)>> \o InsertByLastMessageTime(Tail(sorted), c)
         ELSE <<c>> \o sorted

RECURSIVE SortByLastMessageTime(_)
SortByLastMessageTime(list) ==
    IF list = <<>> THEN <<>>
    ELSE InsertByLastMessageTime(SortByLastMessageTime(SubSeq(list, 1, Len(list) - 1)),
                                 list[Len(list)])

\* a listener delivers a snapshot, which covers every change so far:
\* processChats() is called
ProcessChatsStart(i, q) ==
    /\ chatsListeners[q] = "listening"
    /\ loads[i].pc = "idle"
    /\ loads' = [loads EXCEPT ![i].pc = "get1"]
    /\ chatsChanged' = FALSE
    /\ UNCHANGED <<chatDocs, chatList, chatsListeners>>
    /\ UNCHANGED othersOfChats

\* snapshot1 = await chatsCollection.where('userId1', '==', userId).get()
ProcessChatsGet1(i) ==
    /\ loads[i].pc = "get1"
    /\ loads' = [loads EXCEPT ![i].pc = "get2", ![i].snapshot1 = RoleQuery("userId1")]
    /\ UNCHANGED <<chatDocs, chatList, chatsListeners, chatsChanged>>
    /\ UNCHANGED othersOfChats

\* snapshot2 = await chatsCollection.where('userId2', '==', userId).get()
ProcessChatsGet2(i) ==
    /\ loads[i].pc = "get2"
    /\ loads' = [loads EXCEPT ![i].pc = "users", ![i].snapshot2 = RoleQuery("userId2")]
    /\ UNCHANGED <<chatDocs, chatList, chatsListeners, chatsChanged>>
    /\ UNCHANGED othersOfChats

\* the user documents are fetched; the list is made unique, sorted and delivered
ProcessChatsDeliver(i) ==
    /\ loads[i].pc = "users"
    /\ chatList' = [called |-> TRUE, calls |-> chatList.calls + 1,
                    list |-> SortByLastMessageTime(
                                UniqueChats(loads[i].snapshot1 \o loads[i].snapshot2))]
    /\ loads' = [loads EXCEPT ![i] = [IdleLoad EXCEPT !.pc = "done"]]
    /\ UNCHANGED <<chatDocs, chatsListeners, chatsChanged>>
    /\ UNCHANGED othersOfChats

\* one of the awaited reads throws: the catch block logs, nothing is delivered
ProcessChatsError(i) ==
    /\ loads[i].pc \in {"get1", "get2", "users"}
    /\ loads' = [loads EXCEPT ![i] = [IdleLoad EXCEPT !.pc = "done"]]
    /\ UNCHANGED <<chatDocs, chatList, chatsListeners, chatsChanged>>
    /\ UNCHANGED othersOfChats

\* a sendMessage commits in chat c: lastMessageTime moves to the server time,
\* and the listeners owe a snapshot
ChatMessageSent(c) ==
    /\ \A d \in ChatIds : LastMessageKey(chatDocs[d]) <= MaxTouches
    /\ chatDocs' = [chatDocs EXCEPT ![c].lastMessageTime =
                        1 + LastMessageKey(chatDocs[CHOOSE d \in ChatIds :
                                \A e \in ChatIds : LastMessageKey(chatDocs[e])
                                                      <= LastMessageKey(chatDocs[d])])]
    /\ chatsChanged' = TRUE
    /\ UNCHANGED <<loads, chatList, chatsListeners>>
    /\ UNCHANGED othersOfChats

\* a listener reports an error: the handler logs it; the listener gets no
\* further snapshots
ChatsListenerError(q) ==
    /\ chatsListeners[q] = "listening"
    /\ chatsListeners' = [chatsListeners EXCEPT ![q] = "failed"]
    /\ UNCHANGED <<chatDocs, loads, chatList, chatsChanged>>
    /\ UNCHANGED othersOfChats

\* the function getUserChats returned is called: unsubscribe1(); unsubscribe2()
UnsubscribeChats ==
    /\ chatsListeners' = [q \in {"userId1", "userId2"} |-> "unsubscribed"]
    /\ UNCHANGED <<chatDocs, loads, chatList, chatsChanged>>
    /\ UNCHANGED othersOfChats

ChatsNext ==
    \/ \E i \in 1..MaxLoads, q \in {"userId1", "userId2"} : ProcessChatsStart(i, q)
    \/ \E i \in 1..MaxLoads : ProcessChatsGet1(i)
    \/ \E i \in 1..MaxLoads : ProcessChatsGet2(i)
    \/ \E i \in 1..MaxLoads : ProcessChatsDeliver(i)
    \/ \E i \in 1..MaxLoads : ProcessChatsError(i)
    \/ \E c \in ChatIds : ChatMessageSent(c)
    \/ \E q \in {"userId1", "userId2"} : ChatsListenerError(q)
    \/ UnsubscribeChats

\* the profile is userId1 in two chats and userId2 in the third
SideATwiceSideBOnce ==
    /\ Cardinality({c \in ChatIds : chatDocs[c].role = "userId1"}) = 2
    /\ Cardinality({c \in ChatIds : chatDocs[c].role = "userId2"}) = 1

\* C13: no delivered chat list holds a chat id twice; for a profile that is
\* userId1 in two chats and userId2 in one other, every delivered list has
\* length 3 and holds each of the three chat ids.
C13_ChatListHoldsEachChatOnce ==
    chatList.called =>
        /\ \A j, k \in 1..Len(chatList.list) :
              chatList.list[j].id = chatList.list[k].id => j = k
        /\ SideATwiceSideBOnce =>
              /\ Len(chatList.list) = 3
              /\ {chatList.list[k].id : k \in 1..Len(chatList.list)} = ChatIds

\* a list was delivered to a profile that is userId1 in c1 and c2 and userId2
\* in c3, after a message moved c3 to the front
C13_Witness ==
    /\ chatList.called
    /\ SideATwiceSideBOnce
    /\ Len(chatList.list) = 3
    /\ chatList.list[1].id = "c3"

\* C16: once the unsubscribe function of getUserChats has returned, the
\* callback is not invoked again, not even by a processChats() that was in
\* flight; a second unsubscribe changes nothing.
NoCallbackAfterUnsubscribe ==
    (\A q \in {"userId1", "userId2"} : chatsListeners[q] = "unsubscribed") =>
        (chatList' = chatList /\ chatsListeners' = chatsListeners)

C16_NoCallbackAfterUnsubscribe == [][NoCallbackAfterUnsubscribe]_vars

\* C17: when a listener of getUserChats reports an error, the callback is
\* invoked with the empty list.
ListenerErrorDeliversEmptyList ==
    (\E q \in {"userId1", "userId2"} :
        chatsListeners[q] = "listening" /\ chatsListeners'[q] = "failed") =>
        (chatList'.calls = chatList.calls + 1 /\ chatList'.list = <<>>)

C17_ListenerErrorDeliversEmptyList == [][ListenerErrorDeliversEmptyList]_vars

\* the list a processChats() that reads the store now would deliver
CurrentChatList ==
    SortByLastMessageTime(UniqueChats(RoleQuery("userId1") \o RoleQuery("userId2")))

\* newest first; the chats without lastMessageTime come after all the others
SortedByLastMessageTime(list) ==
    \A j, k \in 1..Len(list) :
        j < k => /\ LastMessageKey(list[j]) >= LastMessageKey(list[k])
                 /\ list[j].lastMessageTime = NoTime => list[k].lastMessageTime = NoTime

\* the callback of getUserChats is invoked in this step
ChatsCallback == chatList'.calls = chatList.calls + 1

\* the list handed to the callback is sorted, and a callback that holds the
\* current contents of the store is not handed older contents afterwards
CallbackGetsCurrentSortedList ==
    ChatsCallback =>
        /\ SortedByLastMessageTime(chatList'.list)
        /\ (chatList.called /\ chatList.list = CurrentChatList)
               => chatList'.list = CurrentChatList

\* C23: after every event of a role query the callback receives the full
\* current contents, sorted by lastMessageTime descending with the chats that
\* lack a lastMessageTime after all the others: every delivered list is so
\* sorted, and no delivery replaces the current contents by outdated ones.
C23_CallbackGetsCurrentSortedList == [][CallbackGetsCurrentSortedList]_vars

\* getUserChats while every read answers and both listeners stay attached
ChatsAnsweredNext ==
    \/ \E i \in 1..MaxLoads, q \in {"userId1", "userId2"} : ProcessChatsStart(i, q)
    \/ \E i \in 1..MaxLoads : ProcessChatsGet1(i)
    \/ \E i \in 1..MaxLoads : ProcessChatsGet2(i)
    \/ \E i \in 1..MaxLoads : ProcessChatsDeliver(i)
    \/ \E c \in ChatIds : ChatMessageSent(c)

\* no processChats() is in flight, and every change of the collection has had
\* its listener snapshot
ChatsQuiescent ==
    /\ \A i \in 1..MaxLoads : loads[i].pc \in {"idle", "done"}
    /\ ~chatsChanged

\* C33: once the chats collection has stopped changing and every in-flight
\* processChats() has finished, the list last handed to the callback is the
\* set of chats in which the profile is userId1 or userId2, with their
\* current field values, in whatever order overlapping runs completed.
C33_QuiescentListIsCurrent ==
    ChatsQuiescent => /\ chatList.called
                      /\ chatList.list = CurrentChatList

----------------------------------------------------------------------------
(* Message notifications: handleSendMessage on the sender's device,          *)
(* setupMessageNotifications and the chat screen on the receiver's device    *)

NotifChats == {"c1", "c2"}

NotifInit ==
    /\ viewingChatId = "none"
    /\ notifier = [attached |-> FALSE, currentChatId |-> "none",
                   isInitialLoad |-> TRUE, lastMessageIds |-> {}]
    /\ inboxMsgs = <<>>
    /\ announced = 0
    /\ notifQueue = <<>>
    /\ notified = <<>>
    /\ setups = 0

\* the receiver opens the chat screen of chat c: setCurrentViewingChatId(chatId)
OpenChat(c) ==
    /\ viewingChatId = "none"
    /\ viewingChatId' = c
    /\ UNCHANGED <<notifier, inboxMsgs, announced, notifQueue, notified, setups>>
    /\ UNCHANGED othersOfNotif

\* the receiver leaves the chat screen: setCurrentViewingChatId(undefined)
LeaveChat ==
    /\ viewingChatId # "none"
    /\ viewingChatId' = "none"
    /\ UNCHANGED <<notifier, inboxMsgs, announced, notifQueue, notified, setups>>
    /\ UNCHANGED othersOfNotif

\* setupMessageNotifications(userId, currentChatId): a new listener, with
\* currentChatId fixed for its lifetime; a listener set up before is
\* unsubscribed by the caller
setupMessageNotifications(currentChatId) ==
    /\ setups < MaxSetups
    /\ setups' = setups + 1
    /\ notifier' = [attached |-> TRUE, currentChatId |-> currentChatId,
                    isInitialLoad |-> TRUE, lastMessageIds |-> {}]
    /\ UNCHANGED <<viewingChatId, inboxMsgs, announced, notifQueue, notified>>
    /\ UNCHANGED othersOfNotif

\* the caller sets the listener up with the chat the receiver has open
NotificationsSetUp == setupMessageNotifications(viewingChatId)

\* a sendMessage addressed to the receiver commits in chat c
MessageCommitted(c) ==
    /\ Len(inboxMsgs) < MaxInbox
    /\ inboxMsgs' = Append(inboxMsgs, [id |-> Len(inboxMsgs) + 1, chatId |-> c,
                                       viewed |-> (viewingChatId = c)])
    /\ UNCHANGED <<viewingChatId, notifier, announced, notifQueue, notified, setups>>
    /\ UNCHANGED othersOfNotif

\* handleSendMessage after await sendMessage(...) has resolved:
\* await sendNotificationToReceiver(otherUserId, name, messageText, chatId)
SenderNotifies ==
    /\ announced < Len(inboxMsgs)
    /\ announced' = announced + 1
    /\ notified' = Append(notified, [id |-> announced + 1, by |-> "sender",
                                     viewed |-> inboxMsgs[announced + 1].viewed])
    /\ UNCHANGED <<viewingChatId, notifier, inboxMsgs, notifQueue, setups>>
    /\ UNCHANGED othersOfNotif

\* a handler that queues every message of the snapshot, seen before or not
NewMessagesOfSnapshot ==
    SelectSeq(inboxMsgs, LAMBDA m : m.chatId # notifier.currentChatId)

\* the messages of a snapshot that the handler queues for a notification:
\* not seen before, and of a chat other than currentChatId
NewMessages ==
    SelectSeq(inboxMsgs, LAMBDA m : /\ m.id \notin notifier.lastMessageIds
                                    /\ m.chatId # notifier.currentChatId)

\* the receiver's listener delivers a snapshot of the committed messages
NotificationSnapshot ==
    /\ notifier.attached
    /\ notifier.isInitialLoad \/ \E k \in 1..Len(inboxMsgs) :
                                    inboxMsgs[k].id \notin notifier.lastMessageIds
    /\ notifQueue' =
          IF notifier.isInitialLoad THEN notifQueue
          ELSE notifQueue \o [k \in 1..Len(NewMessages) |->
                                 [id |-> NewMessages[k].id, by |-> "listener",
                                  viewed |-> (viewingChatId = NewMessages[k].chatId)]]
    /\ notifier' = [notifier EXCEPT
                        !.isInitialLoad = FALSE,
                        !.lastMessageIds = {inboxMsgs[k].id : k \in 1..Len(inboxMsgs)}]
    /\ UNCHANGED <<viewingChatId, inboxMsgs, announced, notified, setups>>
    /\ UNCHANGED othersOfNotif

\* the handler's loop: await showMessageNotification(senderName, text, chatId)
ShowNotification ==
    /\ notifQueue # <<>>
    /\ notified' = Append(notified, Head(notifQueue))
    /\ notifQueue' = Tail(notifQueue)
    /\ UNCHANGED <<viewingChatId, notifier, inboxMsgs, announced, setups>>
    /\ UNCHANGED othersOfNotif

\* reading the sender's document or showing the notification throws: the
\* catch block logs and the loop goes on
ShowNotificationError ==
    /\ notifQueue # <<>>
    /\ notifQueue' = Tail(notifQueue)
    /\ UNCHANGED <<viewingChatId, notifier, inboxMsgs, announced, notified, setups>>
    /\ UNCHANGED othersOfNotif

NotifNext ==
    \/ \E c \in NotifChats : OpenChat(c)
    \/ LeaveChat
    \/ NotificationsSetUp
    \/ \E c \in NotifChats : MessageCommitted(c)
    \/ SenderNotifies
    \/ NotificationSnapshot
    \/ ShowNotification
    \/ ShowNotificationError

\* C19: the notification dispatcher is called for a message only after the
\* message's write has committed, and never for a message of the chat the
\* receiver was viewing when the message arrived.
C19_NotifiedOnlyWhenNotViewing ==
    \A k \in 1..Len(notified) :
        /\ notified[k].id <= Len(inboxMsgs)
        /\ ~notified[k].viewed

\* the receiver's device alone: the listener of setupMessageNotifications,
\* without the notifications the sender's handler requests
NotifListenerNext ==
    \/ \E c \in NotifChats : OpenChat(c)
    \/ LeaveChat
    \/ NotificationsSetUp
    \/ \E c \in NotifChats : MessageCommitted(c)
    \/ NotificationSnapshot
    \/ ShowNotification
    \/ ShowNotificationError

\* the notifications of message id that the listener has shown or queued
ListenerNotifications(id) ==
    Cardinality({k \in 1..Len(notified) :
                    notified[k].by = "listener" /\ notified[k].id = id})
    + Cardinality({k \in 1..Len(notifQueue) : notifQueue[k].id = id})

\* the handler of the initial snapshot queues and shows nothing, and what it
\* stores stays stored for the listener's lifetime
InitialSnapshotSilent ==
    /\ (notifier.attached /\ notifier.isInitialLoad /\ ~notifier'.isInitialLoad) =>
          /\ notifQueue' = notifQueue
          /\ notified' = notified
          /\ notifier'.lastMessageIds = {inboxMsgs[k].id : k \in 1..Len(inboxMsgs)}
    /\ (setups' = setups) => notifier.lastMessageIds \subseteq notifier'.lastMessageIds
    /\ \A k \in 1..Len(notifQueue') :
          k > Len(notifQueue) => notifQueue'[k].id \notin notifier.lastMessageIds

\* C37: setupMessageNotifications shows no notification for a message of the
\* listener's initial snapshot, and for every message id that arrives later
\* it shows at most one notification, however many further snapshots hold
\* that id.
C37_InitialSilentLaterOnce ==
    /\ [][InitialSnapshotSilent]_vars
    /\ [](\A id \in 1..MaxInbox : ListenerNotifications(id) <= 1)

\* the first message was there at the initial snapshot and has no
\* notification; the second arrived later and has exactly one
C37_Witness ==
    /\ setups = 1
    /\ Len(inboxMsgs) = 2
    /\ notifier.lastMessageIds = {1, 2}
    /\ notifQueue = <<>>
    /\ \A k \in 1..Len(notified) : notified[k].id # 1
    /\ ListenerNotifications(2) = 1

----------------------------------------------------------------------------
(* My Pets: the optimistic add of ProfileScreen and MyPetsSection *)

PetIds == 1..MaxPets               \* the ids of the pets the profile adds

PetsInit ==
    /\ animalDocs = {}
    /\ userAnimals = <<>>
    /\ optimisticAnimalsRef = {}
    /\ adds = [a \in PetIds |-> "none"]
    /\ animalsListener = "listening"

\* handleAddAnimal(animal): handleOptimisticAdd marks the id and appends the
\* pet unless it is listed, then the remote add is awaited
handleAddAnimal(a) ==
    /\ adds[a] = "none"
    /\ optimisticAnimalsRef' = optimisticAnimalsRef \cup {a}
    /\ userAnimals' = IF \E i \in 1..Len(userAnimals) : userAnimals[i].id = a
                      THEN userAnimals
                      ELSE Append(userAnimals, [id |-> a, synced |-> FALSE])
    /\ adds' = [adds EXCEPT ![a] = "awaiting"]
    /\ UNCHANGED <<animalDocs, animalsListener>>
    /\ UNCHANGED othersOfPets

\* the remote add commits: the animals collection holds the pet under its id
AddAnimalCommitted(a) ==
    /\ adds[a] = "awaiting"
    /\ animalDocs' = animalDocs \cup {a}
    /\ adds' = [adds EXCEPT ![a] = "committed"]
    /\ UNCHANGED <<userAnimals, optimisticAnimalsRef, animalsListener>>
    /\ UNCHANGED othersOfPets

\* the remote add rejects: handleAddAnimal has no catch, the rejection leaves it
AddAnimalRejected(a) ==
    /\ adds[a] = "awaiting"
    /\ adds' = [adds EXCEPT ![a] = "failed"]
    /\ UNCHANGED <<animalDocs, userAnimals, optimisticAnimalsRef, animalsListener>>
    /\ UNCHANGED othersOfPets

\* the documents of a snapshot as forEach visits them: in id order
RECURSIVE SnapshotAnimals(_)
SnapshotAnimals(docs) ==
    IF docs = {} THEN <<>>
    ELSE LET a == CHOOSE x \in docs : \A y \in docs : x <= y
         IN  <<[id |-> a, synced |-> TRUE]>> \o SnapshotAnimals(docs \ {a})

\* merged.reduce(...): the first entry of every id is kept
RECURSIVE UniqueAnimals(_)
UniqueAnimals(merged) ==
    IF merged = <<>> THEN <<>>
    ELSE LET init == UniqueAnimals(SubSeq(merged, 1, Len(merged) - 1))
             last == merged[Len(merged)]
         IN  IF \E i \in 1..Len(init) : init[i].id = last.id THEN init
             ELSE Append(init, last)

\* the onSnapshot handler: the ids of the snapshot are no longer optimistic;
\* the list is the snapshot followed by the pets that still are
AnimalsSnapshot ==
    /\ animalsListener = "listening"
    /\ LET ref == optimisticAnimalsRef \ animalDocs
           optimisticAnimals == SelectSeq(userAnimals, LAMBDA p : p.id \in ref)
       IN  /\ optimisticAnimalsRef' = ref
           /\ userAnimals' = UniqueAnimals(SnapshotAnimals(animalDocs) \o optimisticAnimals)
    /\ UNCHANGED <<animalDocs, adds, animalsListener>>
    /\ UNCHANGED othersOfPets

\* the listener reports an error: setUserAnimals([]); no further snapshots
AnimalsSnapshotError ==
    /\ animalsListener = "listening"
    /\ userAnimals' = <<>>
    /\ animalsListener' = "failed"
    /\ UNCHANGED <<animalDocs, optimisticAnimalsRef, adds>>
    /\ UNCHANGED othersOfPets

PetsNext ==
    \/ \E a \in PetIds : handleAddAnimal(a)
    \/ \E a \in PetIds : AddAnimalCommitted(a)
    \/ \E a \in PetIds : AddAnimalRejected(a)
    \/ AnimalsSnapshot
    \/ AnimalsSnapshotError

\* the pet is listed as a pending entry: marked optimistic and in the list
PendingPet(a) ==
    /\ a \in optimisticAnimalsRef
    /\ \E i \in 1..Len(userAnimals) : userAnimals[i].id = a /\ ~userAnimals[i].synced

\* C28: an optimistically added pet eventually stops being a pending entry of
\* the My Pets list: a snapshot holding its id replaces it by the confirmed
\* pet, or the failure of the remote add removes it from the list.
C28_PendingPetEventuallyLeaves ==
    \A a \in PetIds : PendingPet(a) ~> ~PendingPet(a)

\* an updater that appends the pet whether or not it is listed
AddAlways(prev, animal) == Append(prev, animal)

\* the updater handleOptimisticAdd passes to setUserAnimals: prev when the id
\* is listed, [...prev, animal] otherwise
AddUnlessListed(prev, animal) ==
    IF \E i \in 1..Len(prev) : prev[i].id = animal.id THEN prev
    ELSE Append(prev, animal)

\* handleOptimisticAdd(animal), called for any pet of the profile at any
\* time: the id is marked optimistic, the pet is added to the list
handleOptimisticAdd(a) ==
    /\ optimisticAnimalsRef' = optimisticAnimalsRef \cup {a}
    /\ userAnimals' = AddUnlessListed(userAnimals, [id |-> a, synced |-> FALSE])
    /\ UNCHANGED <<animalDocs, adds, animalsListener>>
    /\ UNCHANGED othersOfPets

PetsOverlayNext ==
    \/ \E a \in PetIds : handleOptimisticAdd(a)
    \/ \E a \in PetIds : handleAddAnimal(a)
    \/ \E a \in PetIds : AddAnimalCommitted(a)
    \/ \E a \in PetIds : AddAnimalRejected(a)
    \/ AnimalsSnapshot
    \/ AnimalsSnapshotError

\* the entries of the list that hold pet a
ListedAs(list, a) == {i \in 1..Len(list) : list[i].id = a}

\* the handler of a snapshot that holds pets marked optimistic has run
SnapshotOverOptimistic ==
    /\ animalsListener = "listening"
    /\ UNCHANGED <<animalDocs, adds, animalsListener>>
    /\ optimisticAnimalsRef \cap animalDocs # {}
    /\ optimisticAnimalsRef' = optimisticAnimalsRef \ animalDocs

SnapshotVersionListed ==
    SnapshotOverOptimistic =>
        \A a \in optimisticAnimalsRef \cap animalDocs :
            /\ Cardinality(ListedAs(userAnimals', a)) = 1
            /\ \A i \in ListedAs(userAnimals', a) : userAnimals'[i].synced

\* C38: after any interleaving of handleOptimisticAdd calls and animals
\* snapshots the My Pets list holds no two entries with the same pet id, and
\* when a pet id is present both optimistically and in the snapshot the
\* listed entry is the snapshot's version.
C38_NoDuplicatePetsSnapshotWins ==
    /\ [](\A a \in PetIds : Cardinality(ListedAs(userAnimals, a)) <= 1)
    /\ [][SnapshotVersionListed]_vars

\* pet 1 was added optimistically, committed and replaced by the snapshot's
\* entry; handleOptimisticAdd was then called for it again; pet 2 is pending
C38_Witness ==
    /\ userAnimals = <<[id |-> 1, synced |-> TRUE], [id |-> 2, synced |-> FALSE]>>
    /\ optimisticAnimalsRef = {1, 2}
    /\ animalDocs = {1}


----------------------------------------------------------------------------
(* Specifications *)

\* the subsystems other than the ledger, before anything has run
RestInit ==
    /\ LikeInit /\ ScreenInit /\ MergeInit /\ ChatIdInit /\ ChatsInit /\ NotifInit
    /\ PetsInit /\ GuardInit /\ CreateInit

Init == LedgerInit /\ RestInit

\* the initial states in which createOrGetChat has created the chat
InitChatCreated == Init /\ chat.exists

Next == LedgerNext

\* the unread counter ledger
Spec == Init /\ [][Next]_vars

\* the mutual-like matcher
SpecLike == InitChatCreated /\ [][LikeNext]_vars

\* sendMessage of the older chatService, without a transaction
SpecLegacySend == Init /\ [][LegacyNext]_vars

\* the merge of getUserMatchesRealtime
SpecMerge == InitChatCreated /\ [][MergeNext]_vars

\* services/matchService.ts: the listeners that only set documents
SpecMergeSetOnly == InitChatCreated /\ [][MergeSetOnlyNext]_vars

\* the chat screen
SpecScreen == InitChatCreated /\ [][ScreenNext]_vars

\* markMessagesAsRead calls alone, after earlier sends
InitMarkRead == MarkReadInit /\ RestInit
SpecMarkRead == InitMarkRead /\ [][MarkReadNext]_vars

\* sendMessage calls only, on a chat that may not have a document
SpecSend == Init /\ [][SendNext]_vars

\* createOrGetChat calls interleaved with the transactional sendMessage
SpecCreate == Init /\ [][CreateNext]_vars

\* getChatId on every pair of profile ids
InitChatId ==
    /\ LedgerInit /\ chat.exists /\ LikeInit /\ ScreenInit /\ MergeInit
    /\ ChatIdInputs /\ ChatsInit /\ NotifInit /\ PetsInit /\ GuardInit
    /\ CreateInit
SpecChatId == InitChatId /\ [][ChatIdNext]_vars

\* getUserChats for every assignment of roles in three chats
InitChats ==
    /\ LedgerInit /\ chat.exists /\ LikeInit /\ ScreenInit /\ MergeInit
    /\ ChatIdInit /\ ChatsStored /\ NotifInit /\ PetsInit /\ GuardInit
    /\ CreateInit
SpecChats == InitChats /\ [][ChatsNext]_vars

\* getUserChats with reads that answer and listeners that stay attached
SpecChatsAnswered == InitChats /\ [][ChatsAnsweredNext]_vars

\* the like operations with the likes query answering
SpecLikeAnswered == InitChatCreated /\ [][LikeAnsweredNext]_vars

\* checkMutualLike on every stored likes collection of up to MaxStored likes
InitMatcher ==
    /\ LedgerInit /\ chat.exists /\ MatcherInputs /\ ScreenInit /\ MergeInit
    /\ ChatIdInit /\ ChatsInit /\ NotifInit /\ PetsInit /\ GuardInit
    /\ CreateInit
SpecMatcher == InitMatcher /\ [][MatcherNext]_vars

\* the chat screen with what the runtime guarantees: the promise of sendMessage
\* settles, the awaiting handler resumes, and an open listener delivers the
\* newest messages
ScreenFairness ==
    /\ WF_vars((\E ts \in TimePoints : SendCommitted(ts)) \/ SendRejected)
    /\ WF_vars(SendResolved)
    /\ WF_vars(listener.delivered < Len(srv) /\ Snapshot(Len(srv)))

SpecScreenFair == SpecScreen /\ ScreenFairness

\* message notifications
SpecNotif == InitChatCreated /\ [][NotifNext]_vars

\* the listener of setupMessageNotifications on the receiver's device
SpecNotifListener == InitChatCreated /\ [][NotifListenerNext]_vars

\* the send button, for every chat id and profile id the screen can hold
InitSendGuard ==
    /\ LedgerInit /\ chat.exists /\ LikeInit /\ ScreenInit /\ MergeInit
    /\ ChatIdInit /\ ChatsInit /\ NotifInit /\ PetsInit /\ GuardInputs
    /\ CreateInit

SpecSendGuard == InitSendGuard /\ [][SendGuardNext]_vars

\* the optimistic add of a pet
SpecPets == InitChatCreated /\ [][PetsNext]_vars

\* My Pets with handleOptimisticAdd called for any pet at any time
SpecPetsOverlay == InitChatCreated /\ [][PetsOverlayNext]_vars

\* an awaited remote add settles, and a listening listener delivers the
\* snapshot of a collection that changed
PetsFairness ==
    /\ \A a \in PetIds : WF_vars(AddAnimalCommitted(a) \/ AddAnimalRejected(a))
    /\ WF_vars(AnimalsSnapshot)

SpecPetsFair == SpecPets /\ PetsFairness

====
